---- MODULE Spec2Model ----
(***************************************************************************)
(* A model of sflag (src/flag.go): Parser.parse binds a token list into a  *)
(* struct through reflection and the standard flag.FlagSet, distributes    *)
(* the non-flag tokens into the "#" fields and resolves a sub command.     *)
(*                                                                         *)
(* A Go string is the sequence of its bytes, so that prefixes, "="          *)
(* splitting, UTF-8 decoding and number parsing are computed and not       *)
(* assumed.                                                                *)
(***************************************************************************)
EXTENDS Integers, Sequences, FiniteSets, TLC

VARIABLES pc, args, flagsPtr, fields, commands, resolver, environ,
          rec, formal, nonFlagStringFields, nonFlagSliceField,
          fi, rest, consumedNonFlagArgs, result, written, lookups, parsed, flagLog

vars == <<pc, args, flagsPtr, fields, commands, resolver, environ,
          rec, formal, nonFlagStringFields, nonFlagSliceField,
          fi, rest, consumedNonFlagArgs, result, written, lookups, parsed, flagLog>>

\* written, lookups, parsed and flagLog record what the call did: the fields
\* it assigned, the lookups of resolveSubCommand, whether cmdline.Parse
\* returned nil, and the (field, text) pairs the flag tokens set in order.

(***************************************************************************)
(* Strings: a Go string is the sequence of its bytes                       *)
(***************************************************************************)
\* The name of every byte, in the order of the byte values 0..255: an ASCII
\* character stands for itself and the other bytes are written as Go's %q
\* writes them, so that "\\xc3" is one byte, the first of the two of an
\* upper case E with acute accent (<<"\\xc3", "\\x89">>).
ByteNames ==
    <<"\\x00", "\\x01", "\\x02", "\\x03", "\\x04", "\\x05", "\\x06", "\\x07",
      "\\x08", "\t", "\n", "\\x0b", "\f", "\r", "\\x0e", "\\x0f", "\\x10",
      "\\x11", "\\x12", "\\x13", "\\x14", "\\x15", "\\x16", "\\x17", "\\x18",
      "\\x19", "\\x1a", "\\x1b", "\\x1c", "\\x1d", "\\x1e", "\\x1f", " ", "!",
      "\"", "#", "$", "%", "&", "'", "(", ")", "*", "+", ",", "-", ".", "/",
      "0", "1", "2", "3", "4", "5", "6", "7", "8", "9", ":", ";", "<", "=",
      ">", "?", "@", "A", "B", "C", "D", "E", "F", "G", "H", "I", "J", "K",
      "L", "M", "N", "O", "P", "Q", "R", "S", "T", "U", "V", "W", "X", "Y",
      "Z", "[", "\\", "]", "^", "_", "\\x60", "a", "b", "c", "d", "e", "f", "g",
      "h", "i", "j", "k", "l", "m", "n", "o", "p", "q", "r", "s", "t", "u",
      "v", "w", "x", "y", "z", "{", "|", "}", "~", "\\x7f", "\\x80", "\\x81",
      "\\x82", "\\x83", "\\x84", "\\x85", "\\x86", "\\x87", "\\x88", "\\x89",
      "\\x8a", "\\x8b", "\\x8c", "\\x8d", "\\x8e", "\\x8f", "\\x90", "\\x91",
      "\\x92", "\\x93", "\\x94", "\\x95", "\\x96", "\\x97", "\\x98", "\\x99",
      "\\x9a", "\\x9b", "\\x9c", "\\x9d", "\\x9e", "\\x9f", "\\xa0", "\\xa1",
      "\\xa2", "\\xa3", "\\xa4", "\\xa5", "\\xa6", "\\xa7", "\\xa8", "\\xa9",
      "\\xaa", "\\xab", "\\xac", "\\xad", "\\xae", "\\xaf", "\\xb0", "\\xb1",
      "\\xb2", "\\xb3", "\\xb4", "\\xb5", "\\xb6", "\\xb7", "\\xb8", "\\xb9",
      "\\xba", "\\xbb", "\\xbc", "\\xbd", "\\xbe", "\\xbf", "\\xc0", "\\xc1",
      "\\xc2", "\\xc3", "\\xc4", "\\xc5", "\\xc6", "\\xc7", "\\xc8", "\\xc9",
      "\\xca", "\\xcb", "\\xcc", "\\xcd", "\\xce", "\\xcf", "\\xd0", "\\xd1",
      "\\xd2", "\\xd3", "\\xd4", "\\xd5", "\\xd6", "\\xd7", "\\xd8", "\\xd9",
      "\\xda", "\\xdb", "\\xdc", "\\xdd", "\\xde", "\\xdf", "\\xe0", "\\xe1",
      "\\xe2", "\\xe3", "\\xe4", "\\xe5", "\\xe6", "\\xe7", "\\xe8", "\\xe9",
      "\\xea", "\\xeb", "\\xec", "\\xed", "\\xee", "\\xef", "\\xf0", "\\xf1",
      "\\xf2", "\\xf3", "\\xf4", "\\xf5", "\\xf6", "\\xf7", "\\xf8", "\\xf9",
      "\\xfa", "\\xfb", "\\xfc", "\\xfd", "\\xfe", "\\xff">>

ByteVal(c) == (CHOOSE i \in 1..Len(ByteNames) : ByteNames[i] = c) - 1

ByteName(v) == ByteNames[v + 1]

Drop(s, n) == SubSeq(s, n + 1, Len(s))

HasPrefix(s, p) == Len(s) >= Len(p) /\ SubSeq(s, 1, Len(p)) = p

TrimPrefix(s, p) == IF HasPrefix(s, p) THEN Drop(s, Len(p)) ELSE s

(***************************************************************************)
(* unicode/utf8                                                            *)
(***************************************************************************)
\* utf8.RuneError, U+FFFD
RuneError == 65533

\* A continuation byte, 0x80..0xBF.
IsCont(b) == 128 <= b /\ b <= 191

\* The size a first byte announces and the range accepted for the second
\* byte (the tables first and acceptRanges); size 0 for a byte that starts
\* no sequence.
SeqInfo(b) ==
    IF b >= 194 /\ b <= 223 THEN [size |-> 2, lo |-> 128, hi |-> 191]
    ELSE IF b = 224 THEN [size |-> 3, lo |-> 160, hi |-> 191]
    ELSE IF b = 237 THEN [size |-> 3, lo |-> 128, hi |-> 159]
    ELSE IF b >= 225 /\ b <= 239 THEN [size |-> 3, lo |-> 128, hi |-> 191]
    ELSE IF b = 240 THEN [size |-> 4, lo |-> 144, hi |-> 191]
    ELSE IF b >= 241 /\ b <= 243 THEN [size |-> 4, lo |-> 128, hi |-> 191]
    ELSE IF b = 244 THEN [size |-> 4, lo |-> 128, hi |-> 143]
    ELSE [size |-> 0, lo |-> 0, hi |-> 0]

Invalid == [r |-> RuneError, size |-> 1]

\* The rune of a sequence of the announced size, or the error of width 1.
Sequence(s, info, b0) ==
    IF info.size = 0 \/ Len(s) < info.size THEN Invalid
    ELSE IF ByteVal(s[2]) < info.lo \/ ByteVal(s[2]) > info.hi THEN Invalid
    ELSE IF info.size = 2
         THEN [r |-> (b0 % 32) * 64 + (ByteVal(s[2]) % 64), size |-> 2]
    ELSE IF ~IsCont(ByteVal(s[3])) THEN Invalid
    ELSE IF info.size = 3
         THEN [r |-> (b0 % 16) * 4096 + (ByteVal(s[2]) % 64) * 64 + (ByteVal(s[3]) % 64),
               size |-> 3]
    ELSE IF ~IsCont(ByteVal(s[4])) THEN Invalid
    ELSE [r |-> (b0 % 8) * 262144 + (ByteVal(s[2]) % 64) * 4096
                  + (ByteVal(s[3]) % 64) * 64 + (ByteVal(s[4]) % 64),
          size |-> 4]

FirstRune(s, b0) ==
    IF b0 < 128 THEN [r |-> b0, size |-> 1] ELSE Sequence(s, SeqInfo(b0), b0)

\* utf8.DecodeRuneInString
DecodeRuneInString(s) ==
    IF s = <<>> THEN [r |-> RuneError, size |-> 0] ELSE FirstRune(s, ByteVal(s[1]))

\* The index at which DecodeLastRuneInString starts to decode: the nearest
\* rune start among the last utf8.UTFMax bytes, or the limit of the search.
RECURSIVE LastStart(_, _, _)
LastStart(s, start, lim) ==
    IF start < lim THEN (IF start < 1 THEN 1 ELSE start)
    ELSE IF ~IsCont(ByteVal(s[start])) THEN start
    ELSE LastStart(s, start - 1, lim)

LastFrom(s, start, d) ==
    IF start + d.size - 1 # Len(s) THEN Invalid ELSE d

LastRune(s, start) == LastFrom(s, start, DecodeRuneInString(Drop(s, start - 1)))

Min(a, b) == IF a < b THEN a ELSE b

\* utf8.DecodeLastRuneInString
DecodeLastRuneInString(s) ==
    IF s = <<>> THEN [r |-> RuneError, size |-> 0]
    ELSE IF ByteVal(s[Len(s)]) < 128 THEN [r |-> ByteVal(s[Len(s)]), size |-> 1]
    ELSE LastRune(s, LastStart(s, Len(s) - 1, (IF Len(s) > 4 THEN Len(s) - 3 ELSE 1)))

\* utf8.EncodeRune (a surrogate or a rune out of range is written as U+FFFD)
EncodeRune(r) ==
    IF r < 0 \/ r > 1114111 \/ (r >= 55296 /\ r <= 57343)
    THEN <<ByteName(239), ByteName(191), ByteName(189)>>
    ELSE IF r < 128 THEN <<ByteName(r)>>
    ELSE IF r < 2048 THEN <<ByteName(192 + (r \div 64)), ByteName(128 + (r % 64))>>
    ELSE IF r < 65536
         THEN <<ByteName(224 + (r \div 4096)), ByteName(128 + ((r \div 64) % 64)),
                ByteName(128 + (r % 64))>>
    ELSE <<ByteName(240 + (r \div 262144)), ByteName(128 + ((r \div 4096) % 64)),
           ByteName(128 + ((r \div 64) % 64)), ByteName(128 + (r % 64))>>

(***************************************************************************)
(* unicode: the tables of Unicode 14.0.0, as <<first, last, stride>>       *)
(***************************************************************************)
\* unicode.Upper, the category Lu
UpperRanges ==
    <<<<65, 90, 1>>, <<192, 214, 1>>, <<216, 222, 1>>, <<256, 310, 2>>,
      <<313, 327, 2>>, <<330, 376, 2>>, <<377, 381, 2>>, <<385, 386, 1>>,
      <<388, 388, 1>>, <<390, 391, 1>>, <<393, 395, 1>>, <<398, 401, 1>>,
      <<403, 404, 1>>, <<406, 408, 1>>, <<412, 413, 1>>, <<415, 416, 1>>,
      <<418, 422, 2>>, <<423, 423, 1>>, <<425, 425, 1>>, <<428, 428, 1>>,
      <<430, 431, 1>>, <<433, 435, 1>>, <<437, 437, 1>>, <<439, 440, 1>>,
      <<444, 444, 1>>, <<452, 452, 1>>, <<455, 455, 1>>, <<458, 458, 1>>,
      <<461, 475, 2>>, <<478, 494, 2>>, <<497, 497, 1>>, <<500, 500, 1>>,
      <<502, 504, 1>>, <<506, 562, 2>>, <<570, 571, 1>>, <<573, 574, 1>>,
      <<577, 577, 1>>, <<579, 582, 1>>, <<584, 590, 2>>, <<880, 880, 1>>,
      <<882, 882, 1>>, <<886, 886, 1>>, <<895, 895, 1>>, <<902, 902, 1>>,
      <<904, 906, 1>>, <<908, 908, 1>>, <<910, 911, 1>>, <<913, 929, 1>>,
      <<931, 939, 1>>, <<975, 975, 1>>, <<978, 980, 1>>, <<984, 1006, 2>>,
      <<1012, 1012, 1>>, <<1015, 1015, 1>>, <<1017, 1018, 1>>,
      <<1021, 1071, 1>>, <<1120, 1152, 2>>, <<1162, 1216, 2>>,
      <<1217, 1229, 2>>, <<1232, 1326, 2>>, <<1329, 1366, 1>>,
      <<4256, 4293, 1>>, <<4295, 4295, 1>>, <<4301, 4301, 1>>,
      <<5024, 5109, 1>>, <<7312, 7354, 1>>, <<7357, 7359, 1>>,
      <<7680, 7828, 2>>, <<7838, 7934, 2>>, <<7944, 7951, 1>>,
      <<7960, 7965, 1>>, <<7976, 7983, 1>>, <<7992, 7999, 1>>,
      <<8008, 8013, 1>>, <<8025, 8031, 2>>, <<8040, 8047, 1>>,
      <<8120, 8123, 1>>, <<8136, 8139, 1>>, <<8152, 8155, 1>>,
      <<8168, 8172, 1>>, <<8184, 8187, 1>>, <<8450, 8450, 1>>,
      <<8455, 8455, 1>>, <<8459, 8461, 1>>, <<8464, 8466, 1>>,
      <<8469, 8469, 1>>, <<8473, 8477, 1>>, <<8484, 8490, 2>>,
      <<8491, 8493, 1>>, <<8496, 8499, 1>>, <<8510, 8511, 1>>,
      <<8517, 8517, 1>>, <<8579, 8579, 1>>, <<11264, 11311, 1>>,
      <<11360, 11360, 1>>, <<11362, 11364, 1>>, <<11367, 11373, 2>>,
      <<11374, 11376, 1>>, <<11378, 11378, 1>>, <<11381, 11381, 1>>,
      <<11390, 11392, 1>>, <<11394, 11490, 2>>, <<11499, 11499, 1>>,
      <<11501, 11501, 1>>, <<11506, 11506, 1>>, <<42560, 42604, 2>>,
      <<42624, 42650, 2>>, <<42786, 42798, 2>>, <<42802, 42862, 2>>,
      <<42873, 42877, 2>>, <<42878, 42886, 2>>, <<42891, 42891, 1>>,
      <<42893, 42893, 1>>, <<42896, 42896, 1>>, <<42898, 42898, 1>>,
      <<42902, 42922, 2>>, <<42923, 42926, 1>>, <<42928, 42932, 1>>,
      <<42934, 42948, 2>>, <<42949, 42951, 1>>, <<42953, 42953, 1>>,
      <<42960, 42960, 1>>, <<42966, 42966, 1>>, <<42968, 42968, 1>>,
      <<42997, 42997, 1>>, <<65313, 65338, 1>>, <<66560, 66599, 1>>,
      <<66736, 66771, 1>>, <<66928, 66938, 1>>, <<66940, 66954, 1>>,
      <<66956, 66962, 1>>, <<66964, 66965, 1>>, <<68736, 68786, 1>>,
      <<71840, 71871, 1>>, <<93760, 93791, 1>>, <<119808, 119833, 1>>,
      <<119860, 119885, 1>>, <<119912, 119937, 1>>, <<119964, 119964, 1>>,
      <<119966, 119967, 1>>, <<119970, 119970, 1>>, <<119973, 119974, 1>>,
      <<119977, 119980, 1>>, <<119982, 119989, 1>>, <<120016, 120041, 1>>,
      <<120068, 120069, 1>>, <<120071, 120074, 1>>, <<120077, 120084, 1>>,
      <<120086, 120092, 1>>, <<120120, 120121, 1>>, <<120123, 120126, 1>>,
      <<120128, 120132, 1>>, <<120134, 120134, 1>>, <<120138, 120144, 1>>,
      <<120172, 120197, 1>>, <<120224, 120249, 1>>, <<120276, 120301, 1>>,
      <<120328, 120353, 1>>, <<120380, 120405, 1>>, <<120432, 120457, 1>>,
      <<120488, 120512, 1>>, <<120546, 120570, 1>>, <<120604, 120628, 1>>,
      <<120662, 120686, 1>>, <<120720, 120744, 1>>, <<120778, 120778, 1>>,
      <<125184, 125217, 1>>>>

\* The upper and title case letters with a lower case partner (the Lower
\* deltas of unicode.CaseRanges), as <<first, last, stride, delta>>.
LowerRanges ==
    <<<<65, 90, 1, 32>>, <<192, 214, 1, 32>>, <<216, 222, 1, 32>>,
      <<256, 302, 2, 1>>, <<304, 304, 1, -199>>, <<306, 310, 2, 1>>,
      <<313, 327, 2, 1>>, <<330, 374, 2, 1>>, <<376, 376, 1, -121>>,
      <<377, 381, 2, 1>>, <<385, 385, 1, 210>>, <<386, 386, 1, 1>>,
      <<388, 388, 1, 1>>, <<390, 390, 1, 206>>, <<391, 391, 1, 1>>,
      <<393, 394, 1, 205>>, <<395, 395, 1, 1>>, <<398, 398, 1, 79>>,
      <<399, 399, 1, 202>>, <<400, 400, 1, 203>>, <<401, 401, 1, 1>>,
      <<403, 403, 1, 205>>, <<404, 404, 1, 207>>, <<406, 406, 1, 211>>,
      <<407, 407, 1, 209>>, <<408, 408, 1, 1>>, <<412, 412, 1, 211>>,
      <<413, 413, 1, 213>>, <<415, 415, 1, 214>>, <<416, 420, 2, 1>>,
      <<422, 422, 1, 218>>, <<423, 423, 1, 1>>, <<425, 425, 1, 218>>,
      <<428, 428, 1, 1>>, <<430, 430, 1, 218>>, <<431, 431, 1, 1>>,
      <<433, 434, 1, 217>>, <<435, 435, 1, 1>>, <<437, 437, 1, 1>>,
      <<439, 439, 1, 219>>, <<440, 440, 1, 1>>, <<444, 444, 1, 1>>,
      <<452, 452, 1, 2>>, <<453, 453, 1, 1>>, <<455, 455, 1, 2>>,
      <<456, 456, 1, 1>>, <<458, 458, 1, 2>>, <<459, 475, 2, 1>>,
      <<478, 494, 2, 1>>, <<497, 497, 1, 2>>, <<498, 498, 1, 1>>,
      <<500, 500, 1, 1>>, <<502, 502, 1, -97>>, <<503, 503, 1, -56>>,
      <<504, 542, 2, 1>>, <<544, 544, 1, -130>>, <<546, 562, 2, 1>>,
      <<570, 570, 1, 10795>>, <<571, 571, 1, 1>>, <<573, 573, 1, -163>>,
      <<574, 574, 1, 10792>>, <<577, 577, 1, 1>>, <<579, 579, 1, -195>>,
      <<580, 580, 1, 69>>, <<581, 581, 1, 71>>, <<582, 590, 2, 1>>,
      <<880, 880, 1, 1>>, <<882, 882, 1, 1>>, <<886, 886, 1, 1>>,
      <<895, 895, 1, 116>>, <<902, 902, 1, 38>>, <<904, 906, 1, 37>>,
      <<908, 908, 1, 64>>, <<910, 911, 1, 63>>, <<913, 929, 1, 32>>,
      <<931, 939, 1, 32>>, <<975, 975, 1, 8>>, <<984, 1006, 2, 1>>,
      <<1012, 1012, 1, -60>>, <<1015, 1015, 1, 1>>, <<1017, 1017, 1, -7>>,
      <<1018, 1018, 1, 1>>, <<1021, 1023, 1, -130>>, <<1024, 1039, 1, 80>>,
      <<1040, 1071, 1, 32>>, <<1120, 1152, 2, 1>>, <<1162, 1214, 2, 1>>,
      <<1216, 1216, 1, 15>>, <<1217, 1229, 2, 1>>, <<1232, 1326, 2, 1>>,
      <<1329, 1366, 1, 48>>, <<4256, 4293, 1, 7264>>, <<4295, 4295, 1, 7264>>,
      <<4301, 4301, 1, 7264>>, <<5024, 5103, 1, 38864>>, <<5104, 5109, 1, 8>>,
      <<7312, 7354, 1, -3008>>, <<7357, 7359, 1, -3008>>,
      <<7680, 7828, 2, 1>>, <<7838, 7838, 1, -7615>>, <<7840, 7934, 2, 1>>,
      <<7944, 7951, 1, -8>>, <<7960, 7965, 1, -8>>, <<7976, 7983, 1, -8>>,
      <<7992, 7999, 1, -8>>, <<8008, 8013, 1, -8>>, <<8025, 8031, 2, -8>>,
      <<8040, 8047, 1, -8>>, <<8072, 8079, 1, -8>>, <<8088, 8095, 1, -8>>,
      <<8104, 8111, 1, -8>>, <<8120, 8121, 1, -8>>, <<8122, 8123, 1, -74>>,
      <<8124, 8124, 1, -9>>, <<8136, 8139, 1, -86>>, <<8140, 8140, 1, -9>>,
      <<8152, 8153, 1, -8>>, <<8154, 8155, 1, -100>>, <<8168, 8169, 1, -8>>,
      <<8170, 8171, 1, -112>>, <<8172, 8172, 1, -7>>, <<8184, 8185, 1, -128>>,
      <<8186, 8187, 1, -126>>, <<8188, 8188, 1, -9>>,
      <<8486, 8486, 1, -7517>>, <<8490, 8490, 1, -8383>>,
      <<8491, 8491, 1, -8262>>, <<8498, 8498, 1, 28>>, <<8544, 8559, 1, 16>>,
      <<8579, 8579, 1, 1>>, <<9398, 9423, 1, 26>>, <<11264, 11311, 1, 48>>,
      <<11360, 11360, 1, 1>>, <<11362, 11362, 1, -10743>>,
      <<11363, 11363, 1, -3814>>, <<11364, 11364, 1, -10727>>,
      <<11367, 11371, 2, 1>>, <<11373, 11373, 1, -10780>>,
      <<11374, 11374, 1, -10749>>, <<11375, 11375, 1, -10783>>,
      <<11376, 11376, 1, -10782>>, <<11378, 11378, 1, 1>>,
      <<11381, 11381, 1, 1>>, <<11390, 11391, 1, -10815>>,
      <<11392, 11490, 2, 1>>, <<11499, 11499, 1, 1>>, <<11501, 11501, 1, 1>>,
      <<11506, 11506, 1, 1>>, <<42560, 42604, 2, 1>>, <<42624, 42650, 2, 1>>,
      <<42786, 42798, 2, 1>>, <<42802, 42862, 2, 1>>, <<42873, 42873, 1, 1>>,
      <<42875, 42875, 1, 1>>, <<42877, 42877, 1, -35332>>,
      <<42878, 42886, 2, 1>>, <<42891, 42891, 1, 1>>,
      <<42893, 42893, 1, -42280>>, <<42896, 42896, 1, 1>>,
      <<42898, 42898, 1, 1>>, <<42902, 42920, 2, 1>>,
      <<42922, 42922, 1, -42308>>, <<42923, 42923, 1, -42319>>,
      <<42924, 42924, 1, -42315>>, <<42925, 42925, 1, -42305>>,
      <<42926, 42926, 1, -42308>>, <<42928, 42928, 1, -42258>>,
      <<42929, 42929, 1, -42282>>, <<42930, 42930, 1, -42261>>,
      <<42931, 42931, 1, 928>>, <<42932, 42946, 2, 1>>,
      <<42948, 42948, 1, -48>>, <<42949, 42949, 1, -42307>>,
      <<42950, 42950, 1, -35384>>, <<42951, 42951, 1, 1>>,
      <<42953, 42953, 1, 1>>, <<42960, 42960, 1, 1>>, <<42966, 42966, 1, 1>>,
      <<42968, 42968, 1, 1>>, <<42997, 42997, 1, 1>>, <<65313, 65338, 1, 32>>,
      <<66560, 66599, 1, 40>>, <<66736, 66771, 1, 40>>,
      <<66928, 66938, 1, 39>>, <<66940, 66954, 1, 39>>,
      <<66956, 66962, 1, 39>>, <<66964, 66965, 1, 39>>,
      <<68736, 68786, 1, 64>>, <<71840, 71871, 1, 32>>,
      <<93760, 93791, 1, 32>>, <<125184, 125217, 1, 34>>>>

InRange(r, rg) == rg[1] <= r /\ r <= rg[2] /\ (r - rg[1]) % rg[3] = 0

\* unicode.IsUpper
IsUpper(r) == \E i \in 1..Len(UpperRanges) : InRange(r, UpperRanges[i])

\* unicode.IsSpace: the Latin-1 spaces and the property White_Space
IsSpace(r) ==
    r \in {9, 10, 11, 12, 13, 32, 133, 160, 5760, 8232, 8233, 8239, 8287, 12288} \cup (8192..8202)

\* unicode.ToLower
ToLowerRune(r) ==
    IF \E i \in 1..Len(LowerRanges) : InRange(r, LowerRanges[i])
    THEN r + LowerRanges[CHOOSE i \in 1..Len(LowerRanges) : InRange(r, LowerRanges[i])][4]
    ELSE r

(***************************************************************************)
(* strings                                                                 *)
(***************************************************************************)
\* strings.TrimLeftFunc(s, unicode.IsSpace), the leading part of TrimSpace
RECURSIVE TrimLeft(_)
TrimLeft(s) ==
    IF s # <<>> /\ IsSpace(DecodeRuneInString(s).r)
    THEN TrimLeft(Drop(s, DecodeRuneInString(s).size))
    ELSE s

\* strings.TrimRightFunc(s, unicode.IsSpace), the trailing part of TrimSpace
RECURSIVE TrimRight(_)
TrimRight(s) ==
    IF s # <<>> /\ IsSpace(DecodeLastRuneInString(s).r)
    THEN TrimRight(SubSeq(s, 1, Len(s) - DecodeLastRuneInString(s).size))
    ELSE s

\* strings.TrimSpace
TrimSpace(s) == TrimRight(TrimLeft(s))

\* strings.Split(s, ","): the pieces between the commas, empty ones kept.
RECURSIVE SplitFrom(_, _)
SplitFrom(s, cur) ==
    IF s = <<>> THEN <<cur>>
    ELSE IF Head(s) = "," THEN <<cur>> \o SplitFrom(Tail(s), <<>>)
    ELSE SplitFrom(Tail(s), Append(cur, Head(s)))

Split(s) == SplitFrom(s, <<>>)

\* strings.ToLower, which is strings.Map(unicode.ToLower, s): every rune is
\* lowered and written in UTF-8, a byte that is no rune is written as U+FFFD.
RECURSIVE ToLower(_)
ToLower(s) ==
    IF s = <<>> THEN <<>>
    ELSE EncodeRune(ToLowerRune(DecodeRuneInString(s).r))
         \o ToLower(Drop(s, DecodeRuneInString(s).size))

\* isExported: the first rune of the identifier is an upper case letter.
isExported(name) == IsUpper(DecodeRuneInString(name).r)

\* splitAndTrim: comma separated names, each trimmed of white space and of one
\* leading dash, the empty ones dropped.
RECURSIVE DropEmpty(_)
DropEmpty(ss) ==
    IF ss = <<>> THEN <<>>
    ELSE IF Head(ss) = <<>> THEN DropEmpty(Tail(ss))
    ELSE <<Head(ss)>> \o DropEmpty(Tail(ss))

splitAndTrim(name) ==
    LET parts == Split(name)
    IN  DropEmpty([i \in 1..Len(parts) |-> TrimPrefix(TrimSpace(parts[i]), <<"-">>)])

(***************************************************************************)
(* Numbers of any size: a natural number is the sequence of its decimal    *)
(* digits, the lowest first and the highest not zero (<<>> is zero), so    *)
(* that the 64 bit ranges of strconv are computed and not cut short.       *)
(***************************************************************************)
Digits == <<"0", "1", "2", "3", "4", "5", "6", "7", "8", "9">>

IsDigit(ch) == \E i \in 1..Len(Digits) : Digits[i] = ch

DigitVal(ch) == (CHOOSE i \in 1..Len(Digits) : Digits[i] = ch) - 1

AllDigits(s) == s # <<>> /\ \A i \in 1..Len(s) : IsDigit(s[i])

\* The digits of a small number, the lowest first.
RECURSIVE CarryDigits(_)
CarryDigits(c) == IF c = 0 THEN <<>> ELSE <<c % 10>> \o CarryDigits(c \div 10)

\* The two halves of a number put together, with the carry out of the upper.
joined(lo, hi) == [v |-> lo.v \o hi.v, c |-> hi.c]

\* The digits of n * k + c over the length of n and the carry out of them,
\* for small k and c; the number is worked on by halves.
RECURSIVE MulAdd(_, _, _)
RECURSIVE mulUpper(_, _, _)
MulAdd(n, k, c) ==
    IF n = <<>> THEN [v |-> <<>>, c |-> c]
    ELSE IF Len(n) = 1
    THEN [v |-> <<(n[1] * k + c) % 10>>, c |-> (n[1] * k + c) \div 10]
    ELSE mulUpper(MulAdd(SubSeq(n, 1, Len(n) \div 2), k, c), n, k)

mulUpper(lo, n, k) == joined(lo, MulAdd(SubSeq(n, Len(n) \div 2 + 1, Len(n)), k, lo.c))

withCarry(r) == r.v \o CarryDigits(r.c)

\* n * k + c, for k > 0
MulCarry(n, k, c) == withCarry(MulAdd(n, k, c))

\* n * 2^k, for k up to 24
Scale(n, k) == MulCarry(n, 2^k, 0)

\* d * t
Times(d, t) == IF t = 0 THEN <<>> ELSE MulCarry(d, t, 0)

\* The highest index among lo..hi at which n is not zero, 0 if there is none.
RECURSIVE Top(_, _, _)
Top(n, lo, hi) ==
    IF lo > hi THEN 0
    ELSE IF lo = hi THEN (IF n[lo] # 0 THEN lo ELSE 0)
    ELSE IF \E i \in ((lo + hi) \div 2 + 1)..hi : n[i] # 0
    THEN Top(n, (lo + hi) \div 2 + 1, hi)
    ELSE Top(n, lo, (lo + hi) \div 2)

\* The number without zeros above its highest digit.
Strip(n) == SubSeq(n, 1, Top(n, 1, Len(n)))

\* The number a sequence of decimal digit values spells, highest first.
NatOfDigits(ds) == Strip([i \in 1..Len(ds) |-> ds[Len(ds) + 1 - i]])

\* The number a sequence of digit values spells in the base, highest first.
RECURSIVE NatFrom(_, _, _)
NatFrom(ds, base, acc) ==
    IF ds = <<>> THEN acc ELSE NatFrom(Tail(ds), base, MulCarry(acc, base, Head(ds)))

\* The number a decimal text spells.
NatOf(s) == NatOfDigits([i \in 1..Len(s) |-> DigitVal(s[i])])

\* The decimal text of a number, as strconv.FormatUint writes it.
TextOf(n) ==
    IF n = <<>> THEN <<"0">> ELSE [i \in 1..Len(n) |-> Digits[n[Len(n) + 1 - i] + 1]]

\* a < b: b is longer, or lower at the highest digit at which the two differ
NatLess(a, b) ==
    \/ Len(a) < Len(b)
    \/ /\ Len(a) = Len(b)
       /\ \E i \in 1..Len(a) : a[i] < b[i] /\ \A j \in (i + 1)..Len(a) : a[j] = b[j]

\* k zeros: n * 10^k is Zeros(k) \o n
Zeros(k) == [i \in 1..k |-> 0]

\* The digits of a - b - borrow over the length of a and the borrow out of
\* them, for b as long as a; the number is worked on by halves.
RECURSIVE SubAt(_, _, _)
RECURSIVE subUpper(_, _, _)
SubAt(a, b, borrow) ==
    IF a = <<>> THEN [v |-> <<>>, c |-> borrow]
    ELSE IF Len(a) = 1
    THEN [v |-> <<((a[1] + 10) - (b[1] + borrow)) % 10>>,
          c |-> IF a[1] < b[1] + borrow THEN 1 ELSE 0]
    ELSE subUpper(SubAt(SubSeq(a, 1, Len(a) \div 2), SubSeq(b, 1, Len(a) \div 2), borrow),
                  a, b)

subUpper(lo, a, b) ==
    joined(lo, SubAt(SubSeq(a, Len(a) \div 2 + 1, Len(a)),
                     SubSeq(b, Len(a) \div 2 + 1, Len(a)), lo.c))

\* a - b, for a >= b
NatSub(a, b) == Strip(SubAt(a, b \o Zeros(Len(a) - Len(b)), 0).v)

\* 2^k
RECURSIVE Pow2(_)
Pow2(k) == IF k > 24 THEN Scale(Pow2(k - 24), 24) ELSE Scale(<<1>>, k)

(***************************************************************************)
(* strconv.ParseUint, ParseInt and ParseBool, as commonflagValue.Set calls *)
(* them; an integer is held as its decimal text (FormatInt of the number). *)
(***************************************************************************)
\* The value is below 1<<bitSize.
FitsUint(n, bitSize) == NatLess(n, Pow2(bitSize))

\* The value is within the cutoff 1<<(bitSize-1): below it, or equal to it
\* for a negative number.
FitsInt(n, neg, bitSize) ==
    IF neg THEN ~NatLess(Pow2(bitSize - 1), n) ELSE NatLess(n, Pow2(bitSize - 1))

NoNumber == [ok |-> FALSE, v |-> <<"0">>]

\* The number, if it fits the width.
Fitting(fits, text) == IF fits THEN [ok |-> TRUE, v |-> text] ELSE NoNumber

uintOf(n, bitSize) == Fitting(FitsUint(n, bitSize), TextOf(n))

intOf(n, neg, bitSize) ==
    Fitting(FitsInt(n, neg, bitSize),
            IF neg /\ n # <<>> THEN <<"-">> \o TextOf(n) ELSE TextOf(n))

\* strconv.ParseUint(s, 10, bitSize): digits only, no sign and no underscore.
ParseUint(s, bitSize) ==
    IF AllDigits(s) THEN uintOf(NatOf(s), bitSize) ELSE NoNumber

\* The digits of a signed number.
Unsigned(s) == IF s # <<>> /\ Head(s) \in {"-", "+"} THEN Tail(s) ELSE s

\* strconv.ParseInt(s, 10, bitSize): an optional sign, then digits.
ParseInt(s, bitSize) ==
    IF AllDigits(Unsigned(s))
    THEN intOf(NatOf(Unsigned(s)), s # <<>> /\ Head(s) = "-", bitSize)
    ELSE NoNumber

TrueWords == { <<"1">>, <<"t">>, <<"T">>, <<"T", "R", "U", "E">>,
               <<"t", "r", "u", "e">>, <<"T", "r", "u", "e">> }

FalseWords == { <<"0">>, <<"f">>, <<"F">>, <<"F", "A", "L", "S", "E">>,
                <<"f", "a", "l", "s", "e">>, <<"F", "a", "l", "s", "e">> }

\* strconv.ParseBool
ParseBool(s) ==
    IF s \in TrueWords THEN [ok |-> TRUE, v |-> TRUE]
    ELSE IF s \in FalseWords THEN [ok |-> TRUE, v |-> FALSE]
    ELSE [ok |-> FALSE, v |-> FALSE]

(***************************************************************************)
(* strconv.ParseFloat.  A float is held exactly: a finite value is         *)
(* mant * 2^exp with mant an odd number in decimal text ("0" and exp 0 for *)
(* zero), beside the two infinities and NaN.                               *)
(***************************************************************************)
\* float64info and float32info: the bits of the mantissa and the exponents
\* of the smallest and the largest normal number.
FloatInfo(bitSize) ==
    IF bitSize = 32 THEN [mantbits |-> 23, emin |-> 0 - 126, emax |-> 127]
    ELSE [mantbits |-> 52, emin |-> 0 - 1022, emax |-> 1023]

FloatZero(neg) == [class |-> "finite", neg |-> neg, mant |-> <<"0">>, exp |-> 0]

Inf(neg) == [class |-> "inf", neg |-> neg, mant |-> <<"0">>, exp |-> 0]

NaN == [class |-> "nan", neg |-> FALSE, mant |-> <<"0">>, exp |-> 0]

NoFloat == [ok |-> FALSE, v |-> FloatZero(FALSE)]

\* An ASCII upper case letter in lower case, any other byte as it is; lower()
\* of strconv, c | ('x' - 'X'), agrees with it wherever the result is compared
\* with a letter.
LowerByte(c) == IF ByteVal(c) >= 65 /\ ByteVal(c) <= 90 THEN ByteName(ByteVal(c) + 32) ELSE c

\* commonPrefixLenIgnoreCase(s, prefix), prefix in lower case
RECURSIVE commonPrefixLenIgnoreCase(_, _)
commonPrefixLenIgnoreCase(s, prefix) ==
    IF s = <<>> \/ prefix = <<>> \/ LowerByte(Head(s)) # Head(prefix) THEN 0
    ELSE 1 + commonPrefixLenIgnoreCase(Tail(s), Tail(prefix))

\* The length special() consumes of a text without its sign as an infinity.
InfLen(s) ==
    IF commonPrefixLenIgnoreCase(s, <<"i", "n", "f", "i", "n", "i", "t", "y">>) = 8 THEN 8
    ELSE IF commonPrefixLenIgnoreCase(s, <<"i", "n", "f", "i", "n", "i", "t", "y">>) >= 3 THEN 3
    ELSE 0

\* special(): "inf" and "infinity" with an optional sign and "nan" without,
\* in any case; n is the length consumed.
special(s) ==
    IF s = <<>> THEN [ok |-> FALSE, n |-> 0, v |-> NaN]
    ELSE IF Head(s) \in {"+", "-"}
    THEN (IF InfLen(Tail(s)) > 0
          THEN [ok |-> TRUE, n |-> 1 + InfLen(Tail(s)), v |-> Inf(Head(s) = "-")]
          ELSE [ok |-> FALSE, n |-> 0, v |-> NaN])
    ELSE IF Head(s) \in {"i", "I"}
    THEN (IF InfLen(s) > 0
          THEN [ok |-> TRUE, n |-> InfLen(s), v |-> Inf(FALSE)]
          ELSE [ok |-> FALSE, n |-> 0, v |-> NaN])
    ELSE IF Head(s) \in {"n", "N"} /\ commonPrefixLenIgnoreCase(s, <<"n", "a", "n">>) = 3
    THEN [ok |-> TRUE, n |-> 3, v |-> NaN]
    ELSE [ok |-> FALSE, n |-> 0, v |-> NaN]

IsHexLetter(c) == LowerByte(c) \in {"a", "b", "c", "d", "e", "f"}

HexVal(c) ==
    IF IsDigit(c) THEN DigitVal(c)
    ELSE ByteVal(LowerByte(c)) - 87

\* readFloat's loop over the mantissa, from index i: the digits after the
\* leading zeros are gathered in digs (nd is their number), dp follows the
\* decimal point, and the loop stops at the first byte that is no part of a
\* mantissa.
RECURSIVE Mantissa(_, _, _, _)
Mantissa(s, i, hex, m) ==
    IF i > Len(s) THEN [m EXCEPT !.i = i]
    ELSE IF s[i] = "_" THEN Mantissa(s, i + 1, hex, [m EXCEPT !.underscores = TRUE])
    ELSE IF s[i] = "."
    THEN (IF m.sawdot THEN [m EXCEPT !.i = i]
          ELSE Mantissa(s, i + 1, hex, [m EXCEPT !.sawdot = TRUE, !.dp = Len(m.digs)]))
    ELSE IF IsDigit(s[i])
    THEN (IF s[i] = "0" /\ m.digs = <<>>
          THEN Mantissa(s, i + 1, hex, [m EXCEPT !.sawdigits = TRUE, !.dp = @ - 1])
          ELSE Mantissa(s, i + 1, hex,
                        [m EXCEPT !.sawdigits = TRUE, !.digs = Append(@, DigitVal(s[i]))]))
    ELSE IF hex /\ IsHexLetter(s[i])
    THEN Mantissa(s, i + 1, hex,
                  [m EXCEPT !.sawdigits = TRUE, !.digs = Append(@, HexVal(s[i]))])
    ELSE [m EXCEPT !.i = i]

\* The digits and underscores of the exponent, from index i with the value e
\* so far; the value stops growing at 10000.
RECURSIVE ExpDigits(_, _, _, _)
ExpDigits(s, i, e, us) ==
    IF i <= Len(s) /\ s[i] = "_" THEN ExpDigits(s, i + 1, e, TRUE)
    ELSE IF i <= Len(s) /\ IsDigit(s[i])
    THEN ExpDigits(s, i + 1, IF e < 10000 THEN e * 10 + DigitVal(s[i]) ELSE e, us)
    ELSE [i |-> i, e |-> e, underscores |-> us]

\* The exponent after its letter, from index i: an optional sign and at
\* least one digit.
Exponent(s, i) ==
    IF i > Len(s) THEN [ok |-> FALSE, i |-> i, e |-> 0, underscores |-> FALSE]
    ELSE IF s[i] \in {"+", "-"}
    THEN (IF i + 1 > Len(s) \/ ~IsDigit(s[i + 1])
          THEN [ok |-> FALSE, i |-> i + 1, e |-> 0, underscores |-> FALSE]
          ELSE [ok |-> TRUE, i |-> ExpDigits(s, i + 1, 0, FALSE).i,
                e |-> (IF s[i] = "-" THEN 0 - 1 ELSE 1) * ExpDigits(s, i + 1, 0, FALSE).e,
                underscores |-> ExpDigits(s, i + 1, 0, FALSE).underscores])
    ELSE IF ~IsDigit(s[i]) THEN [ok |-> FALSE, i |-> i, e |-> 0, underscores |-> FALSE]
    ELSE [ok |-> TRUE, i |-> ExpDigits(s, i, 0, FALSE).i, e |-> ExpDigits(s, i, 0, FALSE).e,
          underscores |-> ExpDigits(s, i, 0, FALSE).underscores]

\* underscoreOK: an underscore stands between two digits, the base prefix
\* counting as a digit; saw is the kind of the byte before index i.
RECURSIVE underscoresFrom(_, _, _, _)
underscoresFrom(s, i, hex, saw) ==
    IF i > Len(s) THEN saw # "_"
    ELSE IF IsDigit(s[i]) \/ (hex /\ IsHexLetter(s[i])) THEN underscoresFrom(s, i + 1, hex, "0")
    ELSE IF s[i] = "_" THEN saw = "0" /\ underscoresFrom(s, i + 1, hex, "_")
    ELSE saw # "_" /\ underscoresFrom(s, i + 1, hex, "!")

HasBasePrefix(s) ==
    Len(s) >= 2 /\ s[1] = "0" /\ LowerByte(s[2]) \in {"b", "o", "x"}

underscoreOK(s) ==
    IF HasBasePrefix(Unsigned(s))
    THEN underscoresFrom(Unsigned(s), 3, LowerByte(Unsigned(s)[2]) = "x", "0")
    ELSE underscoresFrom(Unsigned(s), 1, FALSE, "^")

\* The text after the mantissa m: the exponent, which a hexadecimal number
\* must have, and the check of the underscores.  n is the length read and
\* dp the place of the point (in bits for a hexadecimal number).
afterMantissa(s, hex, m, x) ==
    IF ~m.sawdigits THEN [ok |-> FALSE, n |-> m.i - 1, digs |-> <<>>, dp |-> 0]
    ELSE IF x.present /\ ~x.ok THEN [ok |-> FALSE, n |-> x.i - 1, digs |-> <<>>, dp |-> 0]
    ELSE IF ~x.present /\ hex THEN [ok |-> FALSE, n |-> m.i - 1, digs |-> <<>>, dp |-> 0]
    ELSE [ok |-> (m.underscores \/ x.underscores) => underscoreOK(SubSeq(s, 1, x.i - 1)),
          n |-> x.i - 1,
          digs |-> m.digs,
          dp |-> (IF m.sawdot THEN m.dp ELSE Len(m.digs)) * (IF hex THEN 4 ELSE 1) + x.e]

\* The exponent that follows the mantissa m, if its letter is there.
exponentAfter(s, hex, m) ==
    IF m.i <= Len(s) /\ LowerByte(s[m.i]) = (IF hex THEN "p" ELSE "e")
    THEN [present |-> TRUE] @@ Exponent(s, m.i + 1)
    ELSE [present |-> FALSE, ok |-> TRUE, i |-> m.i, e |-> 0, underscores |-> FALSE]

\* The number from index i, after the sign: the mantissa, then what follows it.
mantissaOf(s, hex, m) == afterMantissa(s, hex, m, exponentAfter(s, hex, m))

unsignedFloat(s, i, hex) ==
    mantissaOf(s, hex,
               Mantissa(s, IF hex THEN i + 2 ELSE i, hex,
                        [i |-> 1, sawdot |-> FALSE, sawdigits |-> FALSE, dp |-> 0,
                         digs |-> <<>>, underscores |-> FALSE]))

\* readFloat: sign, mantissa in base 10 or, after "0x", in base 16, exponent.
readFloat(s) ==
    IF s = <<>> THEN [ok |-> FALSE, n |-> 0, digs |-> <<>>, dp |-> 0, neg |-> FALSE, hex |-> FALSE]
    ELSE LET i   == IF Head(s) \in {"+", "-"} THEN 2 ELSE 1
             hex == i + 2 <= Len(s) /\ s[i] = "0" /\ LowerByte(s[i + 1]) = "x"
         IN  [neg |-> Head(s) = "-", hex |-> hex] @@ unsignedFloat(s, i, hex)

\* n, d and e with 1 <= n/d < 2 and the same n/d * 2^e, by scaling in steps
\* of 2^24, 2^6 and 2.
RECURSIVE Normalise(_, _, _)
Normalise(n, d, e) ==
    IF ~NatLess(n, Scale(d, 24)) THEN Normalise(n, Scale(d, 24), e + 24)
    ELSE IF ~NatLess(n, Scale(d, 6)) THEN Normalise(n, Scale(d, 6), e + 6)
    ELSE IF ~NatLess(n, Scale(d, 1)) THEN Normalise(n, Scale(d, 1), e + 1)
    ELSE IF NatLess(Scale(n, 24), d) THEN Normalise(Scale(n, 24), d, e - 24)
    ELSE IF NatLess(Scale(n, 6), d) THEN Normalise(Scale(n, 6), d, e - 6)
    ELSE IF NatLess(n, d) THEN Normalise(Scale(n, 1), d, e - 1)
    ELSE [n |-> n, d |-> d, e |-> e]

\* The largest t below 2^k with t * d <= n, for n < 2^k * d.
Digit(n, d, k) ==
    CHOOSE t \in 0..(2^k - 1) : ~NatLess(n, Times(d, t)) /\ NatLess(n, Times(d, t + 1))

\* The quotient and the remainder of n * 2^left by d for n < d, four bits
\* at a time, q being the quotient so far.
RECURSIVE Divide(_, _, _, _)
RECURSIVE taken(_, _, _, _, _, _)
Divide(n, d, left, q) ==
    IF left = 0 THEN [q |-> q, r |-> n]
    ELSE taken(Scale(n, Min(left, 4)), d, left, q, Min(left, 4),
               Digit(Scale(n, Min(left, 4)), d, Min(left, 4)))

taken(n, d, left, q, k, t) ==
    Divide(NatSub(n, Times(d, t)), d, left - k, MulCarry(q, 2^k, t))

\* The quotient and the remainder of n * 2^left by d for n < 2 * d: the
\* first left + 1 bits of n / d.
Bits(n, d, left) ==
    IF NatLess(n, d) THEN Divide(n, d, left, <<>>) ELSE Divide(NatSub(n, d), d, left, <<1>>)

\* Round to nearest, a tie to the even mantissa.
RoundedInteger(b, d) ==
    IF NatLess(d, Scale(b.r, 1)) \/ (Scale(b.r, 1) = d /\ b.q # <<>> /\ b.q[1] % 2 = 1)
    THEN MulCarry(b.q, 1, 1)
    ELSE b.q

\* The value of the four lowest digits: n modulo 10^4.
LowValue(n) ==
    (IF Len(n) >= 1 THEN n[1] ELSE 0) + (IF Len(n) >= 2 THEN 10 * n[2] ELSE 0)
        + (IF Len(n) >= 3 THEN 100 * n[3] ELSE 0) + (IF Len(n) >= 4 THEN 1000 * n[4] ELSE 0)

\* mant * 2^exp with the factors of two moved out of mant, sixteen at a time
\* (n / 16 is n * 625 / 10^4) and then one by one (n / 2 is n * 5 / 10).
RECURSIVE Odd(_, _, _)
Odd(neg, mant, exp) ==
    IF mant = <<>> THEN FloatZero(neg)
    ELSE IF LowValue(mant) % 16 = 0 THEN Odd(neg, Drop(MulCarry(mant, 625, 0), 4), exp + 4)
    ELSE IF mant[1] % 2 = 0 THEN Odd(neg, Tail(MulCarry(mant, 5, 0)), exp + 1)
    ELSE [class |-> "finite", neg |-> neg, mant |-> TextOf(mant), exp |-> exp]

\* The float of the rounded mantissa: past the largest exponent it is the
\* range error.
rounded(neg, mant, e, info) ==
    IF e > info.emax \/ (e = info.emax /\ mant = Pow2(info.mantbits + 1))
    THEN NoFloat
    ELSE [ok |-> TRUE, v |-> Odd(neg, mant, (IF e > info.emin THEN e ELSE info.emin) - info.mantbits)]

\* The float nearest to n/d * 2^e for 1 <= n/d < 2: a number below the
\* normal range is rounded on the grid of the denormal numbers.
nearest(neg, v, info) ==
    IF v.e > info.emax THEN NoFloat
    ELSE IF v.e < info.emin - info.mantbits - 1 THEN [ok |-> TRUE, v |-> FloatZero(neg)]
    ELSE IF v.e = info.emin - info.mantbits - 1
    THEN rounded(neg, RoundedInteger(Bits(v.n, Scale(v.d, 1), 0), Scale(v.d, 1)),
                 v.e, info)
    ELSE rounded(neg,
                 RoundedInteger(Bits(v.n, v.d, info.mantbits - (IF info.emin > v.e THEN info.emin - v.e ELSE 0)),
                                v.d),
                 v.e, info)

\* The float nearest to n/d * 2^e.
floatBits(neg, n, d, e, info) ==
    IF n = <<>> THEN [ok |-> TRUE, v |-> FloatZero(neg)]
    ELSE nearest(neg, Normalise(n, d, e), info)

\* decimal.floatBits for the digits with the point at dp: beyond 10^310 the
\* number is out of range and below 10^-330 it is zero.
decimalBits(neg, digs, dp, info) ==
    IF digs = <<>> THEN [ok |-> TRUE, v |-> FloatZero(neg)]
    ELSE IF dp > 310 THEN NoFloat
    ELSE IF dp < 0 - 330 THEN [ok |-> TRUE, v |-> FloatZero(neg)]
    ELSE IF dp >= Len(digs)
    THEN floatBits(neg, Zeros(dp - Len(digs)) \o NatOfDigits(digs), <<1>>, 0, info)
    ELSE floatBits(neg, NatOfDigits(digs), Zeros(Len(digs) - dp) \o <<1>>, 0, info)

\* atofHex: the hexadecimal digits with the point at bit dp.
hexBits(neg, digs, dp, info) ==
    floatBits(neg, NatFrom(digs, 16, <<>>), <<1>>, dp - 4 * Len(digs), info)

\* The float of a number readFloat read to the end of the text.
floatOf(s, f, info) ==
    IF ~f.ok \/ f.n # Len(s) THEN NoFloat
    ELSE IF f.hex THEN hexBits(f.neg, f.digs, f.dp, info)
    ELSE decimalBits(f.neg, f.digs, f.dp, info)

\* strconv.ParseFloat(s, bitSize): a syntax error or a range error is ok FALSE
ParseFloat(s, bitSize) ==
    IF special(s).ok
    THEN (IF special(s).n = Len(s) THEN [ok |-> TRUE, v |-> special(s).v] ELSE NoFloat)
    ELSE floatOf(s, readFloat(s), FloatInfo(bitSize))

(***************************************************************************)
(* reflect.Kind of a field and the typed cell                              *)
(***************************************************************************)
IntKinds == {"int", "int8", "int16", "int32", "int64"}
UintKinds == {"uint", "uint8", "uint16", "uint32", "uint64"}
FloatKinds == {"float32", "float64"}
CommonKinds == {"bool"} \cup IntKinds \cup UintKinds \cup FloatKinds \cup {"string"}

\* val.Type().Size()*8, int and uint being 64 bits wide
BitSize(kind) ==
    IF kind \in {"int8", "uint8"} THEN 8
    ELSE IF kind \in {"int16", "uint16"} THEN 16
    ELSE IF kind \in {"int32", "uint32", "float32"} THEN 32
    ELSE 64

\* The zero value of a field of the kind.
Zero(kind) ==
    IF kind = "bool" THEN FALSE
    ELSE IF kind \in IntKinds \cup UintKinds THEN <<"0">>
    ELSE IF kind \in FloatKinds THEN FloatZero(FALSE)
    ELSE IF kind \in {"string", "slice"} THEN <<>>
    ELSE "opaque"

\* commonflagValue.Set: the parse of s for the kind, and whether it failed.
Set(kind, s) ==
    IF kind = "bool" THEN ParseBool(s)
    ELSE IF kind \in IntKinds THEN ParseInt(s, BitSize(kind))
    ELSE IF kind \in UintKinds THEN ParseUint(s, BitSize(kind))
    ELSE IF kind \in FloatKinds THEN ParseFloat(s, BitSize(kind))
    ELSE [ok |-> TRUE, v |-> s]

\* The types of the model's structs whose pointer implements flag.Value,
\* with the Set each of them declares: "list" appends the text to a list,
\* "pair" keeps a text of the form key:value and refuses any other, and
\* "counter" counts its calls and is a boolean flag.  impl is "" for a type
\* that does not implement flag.Value.
Implements(f) == f.impl # ""

ValueSet(impl, cur, s) ==
    IF impl = "list" THEN [ok |-> TRUE, v |-> Append(cur, s)]
    ELSE IF impl = "pair"
    THEN (IF \E i \in 1..Len(s) : s[i] = ":" THEN [ok |-> TRUE, v |-> s]
          ELSE [ok |-> FALSE, v |-> cur])
    ELSE [ok |-> TRUE, v |-> cur + 1]

ValueZero(impl) == IF impl = "counter" THEN 0 ELSE <<>>

\* The cell of a field before the call.
ZeroOf(f) ==
    IF f.kind \notin CommonKinds \cup {"slice"} /\ Implements(f) THEN ValueZero(f.impl)
    ELSE Zero(f.kind)

\* IsBoolFlag of the flag's value: commonflagValue for a common kind, the
\* type's own method, if it has one, otherwise.
IsBoolFlag(f) ==
    IF f.kind \in CommonKinds THEN f.kind = "bool" ELSE f.impl = "counter"

(***************************************************************************)
(* Results of one call of Parser.parse                                     *)
(***************************************************************************)
\* Command{}
NoCommand == [Name |-> <<>>, id |-> 0]

Running == [status |-> "running", err |-> "", n |-> 0, cmd |-> NoCommand, cmdArgs |-> <<>>]

\* return subcmd, nil, err
Failed(err, n) ==
    [status |-> "returned", err |-> err, n |-> n, cmd |-> NoCommand, cmdArgs |-> <<>>]

\* Faulty variant: the arguments handed back without the command's name.
Succeeded_NameDropped(cmd, cmdArgs) ==
    [status |-> "returned", err |-> "nil", n |-> 0, cmd |-> cmd,
     cmdArgs |-> IF cmdArgs = <<>> THEN <<>> ELSE Tail(cmdArgs)]

\* return cmd, args, nil
Succeeded(cmd, cmdArgs) ==
    [status |-> "returned", err |-> "nil", n |-> 0, cmd |-> cmd, cmdArgs |-> cmdArgs]

\* panic(msg), from this package, from flag.Var or from reflect
Panicked(msg) ==
    [status |-> "panic", err |-> msg, n |-> 0, cmd |-> NoCommand, cmdArgs |-> <<>>]

\* reflect refuses to assign through a Value obtained from an unexported field.
Settable(f) == isExported(f.ident)

(***************************************************************************)
(* flag.FlagSet: the formal flags are a sequence of (name, field) pairs    *)
(***************************************************************************)
Defined(fs, name) == \E i \in 1..Len(fs) : fs[i].name = name

FieldOf(fs, name) == fs[CHOOSE i \in 1..Len(fs) : fs[i].name = name].field

Contains(s, ch) == \E i \in 1..Len(s) : s[i] = ch

\* cmdline.Var(fval, name, usage) for every name, in order; flag.Var panics on
\* a name that begins with "-", contains "=" or is already defined.
RECURSIVE iterNames(_, _, _)
iterNames(fs, names, field) ==
    IF names = <<>> THEN [panic |-> "", formal |-> fs]
    ELSE IF HasPrefix(Head(names), <<"-">>)
         THEN [panic |-> "flag begins with -", formal |-> fs]
    ELSE IF Contains(Head(names), "=")
         THEN [panic |-> "flag contains =", formal |-> fs]
    ELSE IF Defined(fs, Head(names))
         THEN [panic |-> "flag redefined", formal |-> fs]
    ELSE iterNames(Append(fs, [name |-> Head(names), field |-> field]), Tail(names), field)

\* The assignment of a parsed value r to the cell of field f holding cur.
assign(f, cur, r) ==
    IF ~r.ok THEN [ok |-> FALSE, panic |-> FALSE, v |-> cur]
    ELSE IF ~Settable(f) THEN [ok |-> FALSE, panic |-> TRUE, v |-> cur]
    ELSE [ok |-> TRUE, panic |-> FALSE, v |-> r.v]

\* What a Set of the field's own type answered: it writes through its
\* receiver, without reflect.
own(r) == [ok |-> r.ok, panic |-> FALSE, v |-> r.v]

\* fval.Set(s) on the cell of field f holding cur: for a common kind the text
\* is parsed for the kind and the parsed value is assigned through reflect;
\* otherwise it is the Set of the field's type.
SetCell(f, cur, s) ==
    IF f.kind \in CommonKinds THEN assign(f, cur, Set(f.kind, s))
    ELSE own(ValueSet(f.impl, cur, s))

NotSet(cur) == [ok |-> FALSE, panic |-> FALSE, v |-> cur]

\* valApplied and the cell after a first Set (a) and, when the first did not
\* apply, a second Set of the text s.
thenSet(f, a, second, s) ==
    IF second /\ ~a.ok /\ ~a.panic
    THEN SetCell(f, a.v, s)
    ELSE a

\* Faulty variant: the default is applied first and the environment only without it.
applyInitial_DefaultFirst(f, cur, enval) ==
    thenSet(f, IF f.def # <<>> THEN SetCell(f, cur, f.def) ELSE NotSet(cur),
            f.env # "" /\ enval # <<>>, enval)

\* The cell before the tokens are read: the environment value is applied
\* first, the default only when no environment value was applied.
applyInitial(f, cur, enval) ==
    thenSet(f, IF f.env # "" /\ enval # <<>> THEN SetCell(f, cur, enval) ELSE NotSet(cur),
            f.def # <<>>, f.def)

\* os.Getenv(env) for the env tag of the field
Getenv(f, env) == IF f.env # "" THEN env[f.env] ELSE <<>>

\* What addFlag returns after the initial value a and the registration reg;
\* the names registered before a panic of flag.Var stay in the flag set.
registered(cur, fs, a, reg) ==
    IF a.panic
    THEN [ok |-> FALSE, panic |-> "reflect: value obtained using unexported field",
          v |-> cur, applied |-> FALSE, formal |-> fs]
    ELSE IF reg.panic # ""
    THEN [ok |-> FALSE, panic |-> reg.panic, v |-> a.v, applied |-> a.ok, formal |-> reg.formal]
    ELSE [ok |-> TRUE, panic |-> "", v |-> a.v, applied |-> a.ok, formal |-> reg.formal]

\* addFlag: a field of a common kind is wrapped in a commonflagValue; a field
\* of another kind is passed over unless the pointer to its type implements
\* flag.Value, and then val.Addr().Interface() panics for an unexported
\* field; the initial value is applied and every name is registered.
addFlag(f, cur, fs, names, field, env) ==
    IF f.kind \notin CommonKinds /\ ~Implements(f)
    THEN [ok |-> FALSE, panic |-> "", v |-> cur, applied |-> FALSE, formal |-> fs]
    ELSE IF f.kind \notin CommonKinds /\ ~Settable(f)
    THEN [ok |-> FALSE, panic |-> "reflect: cannot return value obtained from unexported field",
          v |-> cur, applied |-> FALSE, formal |-> fs]
    ELSE registered(cur, fs, applyInitial(f, cur, Getenv(f, env)),
                    iterNames(fs, names, field))

\* The flag name of a field without a name tag: the identifier with its first
\* letter in lower case, or that letter alone when the short tag asks for it.
DerivedName(f) ==
    LET asShort == f.short.present /\ (f.short.v = <<>> \/ ParseBool(f.short.v).v)
    IN  IF asShort THEN ToLower(SubSeq(f.ident, 1, 1))
        ELSE ToLower(SubSeq(f.ident, 1, 1)) \o Drop(f.ident, 1)

(***************************************************************************)
(* flag.FlagSet.Parse, which parse calls on args[1:]: one token (and the   *)
(* value that follows it) per round.                                       *)
(***************************************************************************)
\* The index of the first "=" of name after its first character, 0 if none.
EqualsAt(name) ==
    IF \E i \in 2..Len(name) : name[i] = "="
    THEN CHOOSE i \in 2..Len(name) : name[i] = "=" /\ \A j \in 2..(i - 1) : name[j] # "="
    ELSE 0

HelpNames == { <<"h">>, <<"h", "e", "l", "p">> }

Stop(toks, cells) ==
    [seen |-> FALSE, err |-> "", panic |-> FALSE, rest |-> toks, rec |-> cells, wrote |-> {},
     text |-> <<>>]

Fail(msg, toks, cells) ==
    [seen |-> FALSE, err |-> msg, panic |-> FALSE, rest |-> toks, rec |-> cells, wrote |-> {},
     text |-> <<>>]

\* What the round returns after the flag's Value.Set(value) ended as r.
afterSet(r, cells, field, value, toks, msg) ==
    IF r.panic
    THEN [seen |-> FALSE, err |-> "", panic |-> TRUE, rest |-> toks, rec |-> cells,
          wrote |-> {}, text |-> <<>>]
    ELSE IF ~r.ok THEN Fail(msg, toks, cells)
    ELSE [seen |-> TRUE, err |-> "", panic |-> FALSE, rest |-> toks,
          rec |-> [cells EXCEPT ![field] = r.v], wrote |-> {field}, text |-> value]

\* The flag's Value.Set(value) and what the round returns after it.
SetFlag(flds, cells, field, value, toks, msg) ==
    afterSet(SetCell(flds[field], cells[field], value), cells, field, value, toks, msg)

\* FlagSet.parseOne
parseOne(toks, fs, flds, cells) ==
    IF toks = <<>> THEN Stop(toks, cells)
    ELSE
    LET s == Head(toks)
    IN  IF Len(s) < 2 \/ s[1] # "-" THEN Stop(toks, cells)
        ELSE IF s = <<"-", "-">> THEN Stop(Tail(toks), cells)
        ELSE
        LET numMinuses == IF s[2] = "-" THEN 2 ELSE 1
            full == Drop(s, numMinuses)
        IN  IF full = <<>> \/ full[1] = "-" \/ full[1] = "="
            THEN Fail("bad flag syntax", toks, cells)
            ELSE
            LET eq       == EqualsAt(full)
                hasValue == eq # 0
                name     == IF hasValue THEN SubSeq(full, 1, eq - 1) ELSE full
                value    == IF hasValue THEN Drop(full, eq) ELSE <<>>
                after    == Tail(toks)
            IN  IF ~Defined(fs, name)
                THEN IF name \in HelpNames THEN Fail("ErrHelp", after, cells)
                     ELSE Fail("flag provided but not defined", after, cells)
                ELSE
                LET field == FieldOf(fs, name)
                    isBool == IsBoolFlag(flds[field])
                IN  IF ~isBool /\ ~hasValue /\ after = <<>>
                    THEN Fail("flag needs an argument", after, cells)
                    ELSE SetFlag(flds, cells, field,
                                 IF hasValue THEN value
                                 ELSE IF isBool THEN <<"t", "r", "u", "e">>
                                 ELSE Head(after),
                                 IF isBool \/ hasValue THEN after ELSE Tail(after),
                                 IF isBool THEN "invalid boolean value" ELSE "invalid value")

(***************************************************************************)
(* Parser.resolveSubCommand                                                *)
(***************************************************************************)
\* lookup: the first command of the table with the name.
Found(cmds, name) == \E i \in 1..Len(cmds) : cmds[i].Name = name

lookup(cmds, name) ==
    IF Found(cmds, name)
    THEN cmds[CHOOSE i \in 1..Len(cmds) :
                 cmds[i].Name = name /\ \A j \in 1..(i - 1) : cmds[j].Name # name]
    ELSE NoCommand

\* The CommandResolver strategies of the model: none; one that declines; one
\* that declines after rewriting; one that completes an abbreviated name; one
\* that runs the first command of the table by default; one that answers with
\* a name no command has; one that answers with no tokens at all.
CommandResolver(res, toks, cmds) ==
    IF res = "abbrev"
    THEN IF \E i \in 1..Len(cmds) : HasPrefix(cmds[i].Name, toks[1])
         THEN [ok |-> TRUE,
               args |-> <<cmds[CHOOSE i \in 1..Len(cmds) :
                                /\ HasPrefix(cmds[i].Name, toks[1])
                                /\ \A j \in 1..(i - 1) : ~HasPrefix(cmds[j].Name, toks[1])].Name>>
                        \o Tail(toks)]
         ELSE [ok |-> FALSE, args |-> toks]
    ELSE IF res = "default" THEN [ok |-> TRUE, args |-> <<cmds[1].Name>> \o toks]
    ELSE IF res = "bogus" THEN [ok |-> TRUE, args |-> <<<<"z", "z">>>> \o Tail(toks)]
    ELSE IF res = "empty" THEN [ok |-> TRUE, args |-> <<>>]
    ELSE IF res = "rewriteDecline" THEN [ok |-> FALSE, args |-> <<cmds[1].Name>> \o Tail(toks)]
    ELSE [ok |-> FALSE, args |-> toks]

\* The second lookup, of the first token of the list the resolver handed back.
retry(cmds, rewritten) ==
    IF rewritten = <<>>
    THEN [result |-> Panicked("index out of range"), lookups |-> 1]
    ELSE IF Found(cmds, rewritten[1])
    THEN [result |-> Succeeded(lookup(cmds, rewritten[1]), rewritten), lookups |-> 2]
    ELSE [result |-> Failed("unknown command", 0), lookups |-> 2]

\* What resolveSubCommand does with the resolver's answer r.
resolved(cmds, r) ==
    IF r.ok THEN retry(cmds, r.args)
    ELSE [result |-> Failed("unknown command", 0), lookups |-> 1]

\* res names the CommandResolver, "nil" when none is set.
resolveSubCommand(cmds, toks, res) ==
    IF Found(cmds, toks[1])
    THEN [result |-> Succeeded(lookup(cmds, toks[1]), toks), lookups |-> 1]
    ELSE IF res # "nil"
    THEN resolved(cmds, CommandResolver(res, toks, cmds))
    ELSE [result |-> Failed("unknown command", 0), lookups |-> 1]

(***************************************************************************)
(* Parser.parse, phase by phase                                            *)
(***************************************************************************)
inputs == <<args, flagsPtr, fields, commands, resolver, environ>>

\* The reflect.Value checks ahead of the field loop.
Begin ==
    /\ pc = "start"
    /\ IF flagsPtr = "nil"
       THEN /\ pc' = "flags"
            /\ rest' = Tail(args)
            /\ result' = result
       ELSE IF flagsPtr # "struct"
       THEN /\ pc' = "done"
            /\ rest' = rest
            /\ result' = Panicked("expect pointer of struct")
       ELSE /\ pc' = "reflect"
            /\ rest' = rest
            /\ result' = result
    /\ UNCHANGED <<inputs, rec, formal, nonFlagStringFields, nonFlagSliceField, fi,
                   consumedNonFlagArgs, written, lookups, parsed, flagLog>>

\* Faulty variant: a second []string field takes the place of the first.
addSliceField_LastWins(cur, i) == [panic |-> "", slice |-> i]

\* The one []string field: a second one is a panic.
addSliceField(cur, i) ==
    IF cur # 0
    THEN [panic |-> "duplicated non-flag field of type []string", slice |-> cur]
    ELSE [panic |-> "", slice |-> i]

\* The loop's state after addFlag returned a.
flagField(same, a) ==
    [same EXCEPT !.panic = a.panic, !.v = a.v, !.applied = a.applied, !.formal = a.formal]

\* The loop's state after the []string field was taken as s.
sliceField(same, s) == [same EXCEPT !.panic = s.panic, !.slice = s.slice]

\* What one round of the field loop does with field i.
ReflectOne(f, i) ==
    LET same == [panic |-> "", v |-> rec[i], applied |-> FALSE, formal |-> formal,
                 strs |-> nonFlagStringFields, slice |-> nonFlagSliceField]
    IN  IF f.anonymous \/ f.name = <<"-">> THEN same
        ELSE IF HasPrefix(f.name, <<"#">>)
        THEN IF f.kind = "string"
             THEN [same EXCEPT !.strs = Append(nonFlagStringFields, i)]
             ELSE IF f.kind = "slice"
             THEN sliceField(same, addSliceField(nonFlagSliceField, i))
             ELSE [same EXCEPT !.panic = "only string/[]string allowed for non-flag field"]
        ELSE IF f.name = <<>> /\ (f.ident = <<>> \/ ~isExported(f.ident)) THEN same
        ELSE flagField(same,
                       addFlag(f, rec[i], formal,
                               splitAndTrim(IF f.name = <<>> THEN DerivedName(f) ELSE f.name),
                               i, environ))

ReflectField ==
    /\ pc = "reflect"
    /\ fi <= Len(fields)
    /\ \E o \in {ReflectOne(fields[fi], fi)} :
           /\ rec' = [rec EXCEPT ![fi] = o.v]
           /\ written' = IF o.applied THEN written \cup {fi} ELSE written
           /\ formal' = o.formal
           /\ nonFlagStringFields' = o.strs
           /\ nonFlagSliceField' = o.slice
           /\ IF o.panic # ""
              THEN pc' = "done" /\ result' = Panicked(o.panic) /\ fi' = fi
              ELSE pc' = pc /\ result' = result /\ fi' = fi + 1
    /\ UNCHANGED <<inputs, rest, consumedNonFlagArgs, lookups, parsed, flagLog>>

\* Faulty variant: a []string field is let through beside sub commands.
sliceWithCommands_Allowed(slice, cmds) == FALSE

\* A []string field beside a non-empty table.
sliceWithCommands(slice, cmds) == slice # 0 /\ Len(cmds) > 0

\* After the loop: a []string field excludes sub commands; then the flag set
\* is handed args[1:].
EndReflect ==
    /\ pc = "reflect"
    /\ fi > Len(fields)
    /\ IF sliceWithCommands(nonFlagSliceField, commands)
       THEN /\ pc' = "done"
            /\ result' = Panicked("non-flag field of type []string is not allowed with sub commands")
            /\ rest' = rest
       ELSE /\ pc' = "flags"
            /\ result' = result
            /\ rest' = Tail(args)
    /\ UNCHANGED <<inputs, rec, formal, nonFlagStringFields, nonFlagSliceField, fi,
                   consumedNonFlagArgs, written, lookups, parsed, flagLog>>

\* Faulty variant: the error of cmdline.Parse is dropped and parse goes on.
afterParse_ErrorDropped(o) ==
    IF o.panic
    THEN [pc |-> "done", result |-> Panicked("reflect: value obtained using unexported field")]
    ELSE IF o.seen THEN [pc |-> "flags", result |-> Running]
    ELSE [pc |-> IF flagsPtr = "nil" THEN "noflags" ELSE "bind", result |-> Running]

\* err = cmdline.Parse(args[1:]); if err != nil { return subcmd, nil, err }
afterParse(o) ==
    IF o.panic
    THEN [pc |-> "done", result |-> Panicked("reflect: value obtained using unexported field")]
    ELSE IF o.err # "" THEN [pc |-> "done", result |-> Failed(o.err, 0)]
    ELSE IF o.seen THEN [pc |-> "flags", result |-> Running]
    ELSE [pc |-> IF flagsPtr = "nil" THEN "noflags" ELSE "bind", result |-> Running]

\* cmdline.Parse: one round of its loop; it ends at the first non-flag token,
\* after "--", at the end of the tokens, or with an error.
FlagParse ==
    /\ pc = "flags"
    /\ \E o \in {parseOne(rest, formal, fields, rec)} :
           /\ rest' = o.rest
           /\ rec' = o.rec
           /\ written' = written \cup o.wrote
           /\ flagLog' = IF o.seen
                         THEN Append(flagLog, [field |-> CHOOSE i \in o.wrote : TRUE,
                                               text |-> o.text])
                         ELSE flagLog
           /\ parsed' = (~o.panic /\ o.err = "" /\ ~o.seen)
           /\ \E to \in {afterParse(o)} : pc' = to.pc /\ result' = to.result
    /\ UNCHANGED <<inputs, formal, nonFlagStringFields, nonFlagSliceField, fi,
                   consumedNonFlagArgs, lookups>>

\* Faulty variant: a table and no token for the name pass for a success.
noCommand_Skipped == Succeeded(NoCommand, <<>>)

\* fmt.Errorf("no command to be run")
noCommand == Failed("no command to be run", 0)

\* parse without a struct, after the flag set stopped: rest is cmdline.Args().
NoFlags ==
    /\ pc = "noflags"
    /\ pc' = "done"
    /\ \E r \in {IF Len(commands) > 0
                THEN IF Len(rest) = 0
                     THEN [result |-> noCommand, lookups |-> 0]
                     ELSE resolveSubCommand(commands, rest, resolver)
                ELSE IF Len(rest) > 0
                THEN [result |-> Failed("the command should be runs without arguments", 0),
                      lookups |-> 0]
                ELSE [result |-> Succeeded(NoCommand, <<>>), lookups |-> 0]} :
           result' = r.result /\ lookups' = r.lookups
    /\ UNCHANGED <<inputs, rec, formal, nonFlagStringFields, nonFlagSliceField, fi, rest,
                   consumedNonFlagArgs, written, parsed, flagLog>>

\* The first string field, of those the tokens reach, that reflect refuses to
\* assign; 0 if there is none.
FirstUnsettable(strs, m) ==
    IF \E i \in 1..Min(m, Len(strs)) : ~Settable(fields[strs[i]])
    THEN CHOOSE i \in 1..Min(m, Len(strs)) :
            /\ ~Settable(fields[strs[i]])
            /\ \A j \in 1..(i - 1) : Settable(fields[strs[j]])
    ELSE 0

\* The cells after the first k string fields took the first k tokens.
RECURSIVE BindStrings(_, _, _, _)
BindStrings(cells, strs, toks, k) ==
    IF k = 0 THEN cells
    ELSE [BindStrings(cells, strs, toks, k - 1) EXCEPT ![strs[k]] = toks[k]]

\* Faulty variant: the slice starts one token late.
sliceFrom_OffByOne(toks, n) == Drop(toks, n + 1)

\* nonflagArgs[i:], i the number of string fields
sliceFrom(toks, n) == Drop(toks, n)

\* The loop over cmdline.Args(): token i goes to the i-th string field, the
\* tokens after the last string field go to the []string field as one slice.
BindPositionals ==
    /\ pc = "bind"
    /\ LET m     == Len(rest)
           n     == Len(nonFlagStringFields)
           bad   == FirstUnsettable(nonFlagStringFields, m)
           k     == IF bad # 0 THEN bad - 1 ELSE Min(m, n)
           tail  == bad = 0 /\ m > n /\ nonFlagSliceField # 0
           badSl == tail /\ ~Settable(fields[nonFlagSliceField])
           bound == BindStrings(rec, nonFlagStringFields, rest, k)
       IN  /\ rec' = IF tail /\ ~badSl
                     THEN [bound EXCEPT ![nonFlagSliceField] = sliceFrom(rest, n)]
                     ELSE bound
           /\ written' = written \cup { nonFlagStringFields[i] : i \in 1..k }
                                 \cup (IF tail /\ ~badSl THEN {nonFlagSliceField} ELSE {})
           /\ consumedNonFlagArgs' = IF tail /\ ~badSl THEN m ELSE k
           /\ IF bad # 0 \/ badSl
              THEN /\ pc' = "done"
                   /\ result' = Panicked("reflect: value obtained using unexported field")
              ELSE pc' = "finish" /\ result' = result
    /\ UNCHANGED <<inputs, formal, nonFlagStringFields, nonFlagSliceField, fi, rest, lookups,
                   parsed, flagLog>>

\* Faulty variant: tokens nobody took are dropped in silence.
leftover_Dropped(n) == Succeeded(NoCommand, <<>>)

\* The error for tokens nobody took, n the number of string fields.
leftover(n) ==
    IF n = 0 THEN Failed("non-flag args not allowed", 0)
    ELSE Failed("accept only n non-flag args", n)

\* The end of parse: an error for tokens nobody took, or the sub command.
Finish ==
    /\ pc = "finish"
    /\ pc' = "done"
    /\ \E r \in {IF consumedNonFlagArgs < Len(rest)
                THEN IF Len(commands) = 0
                     THEN [result |-> leftover(Len(nonFlagStringFields)), lookups |-> 0]
                     ELSE resolveSubCommand(commands, Drop(rest, consumedNonFlagArgs), resolver)
                ELSE IF Len(commands) > 0
                THEN [result |-> noCommand, lookups |-> 0]
                ELSE [result |-> Succeeded(NoCommand, <<>>), lookups |-> 0]} :
           result' = r.result /\ lookups' = r.lookups
    /\ UNCHANGED <<inputs, rec, formal, nonFlagStringFields, nonFlagSliceField, fi, rest,
                   consumedNonFlagArgs, written, parsed, flagLog>>

Next == Begin \/ ReflectField \/ EndReflect \/ FlagParse \/ NoFlags \/ BindPositionals \/ Finish

(***************************************************************************)
(* The calls of the model: structs, token lists, environments, tables      *)
(***************************************************************************)
MaxArgs == 3

NoShort == [present |-> FALSE, v |-> <<>>]

\* A struct field: identifier, kind, and the name, env and default tags.
Field(ident, kind, name, env, def) ==
    [ident |-> ident, anonymous |-> FALSE, kind |-> kind, name |-> name,
     short |-> NoShort, env |-> env, def |-> def, impl |-> ""]

\* The field, of a type whose pointer implements flag.Value as impl does.
Value(f, impl) == [f EXCEPT !.impl = impl]

Embedded(f) == [f EXCEPT !.anonymous = TRUE]

Short(f, v) == [f EXCEPT !.short = [present |-> TRUE, v |-> v]]

\* The tokens of the calls, by name.
tok ==
    [
      V |-> <<"-", "v">>,
      Vfalse |-> <<"-", "v", "=", "f", "a", "l", "s", "e">>,
      N |-> <<"-", "n">>,
      Num9 |-> <<"-", "-", "n", "u", "m", "=", "9">>,
      S |-> <<"-", "s">>,
      U |-> <<"-", "u">>,
      H |-> <<"-", "h">>,
      Help |-> <<"-", "-", "h", "e", "l", "p">>,
      End |-> <<"-", "-">>,
      E |-> <<"-", "e">>,
      O |-> <<"-", "o">>,
      n7 |-> <<"7">>,
      n300 |-> <<"3", "0", "0">>,
      X |-> <<"x">>,
      Y |-> <<"y">>,
      Create |-> <<"c", "r", "e", "a", "t", "e">>,
      Cr |-> <<"c", "r">>,
      List |-> <<"l", "i", "s", "t">>,
      Extra |-> <<"e", "x", "t", "r", "a">>,
      Prog |-> <<"p", "r", "o", "g">>,
      R |-> <<"-", "r">>,
      RatioTenth |-> <<"-", "-", "r", "a", "t", "i", "o", "=", "0", ".", "1">>,
      n1e39 |-> <<"1", "e", "3", "9">>,
      HexQuarter |-> <<"0", "x", "1", "p", "-", "2">>,
      B |-> <<"-", "b">>,
      W |-> <<"-", "w">>,
      F |-> <<"-", "f">>,
      n2p63 |-> <<"9", "2", "2", "3", "3", "7", "2", "0", "3", "6", "8", "5", "4", "7",
          "7", "5", "8", "0", "8">>,
      MinInt64 |-> <<"-">> \o <<"9", "2", "2", "3", "3", "7", "2", "0", "3", "6", "8",
          "5", "4", "7", "7", "5", "8", "0", "8">>,
      MaxUint32 |-> <<"4", "2", "9", "4", "9", "6", "7", "2", "9", "5">>,
      n2p32 |-> <<"4", "2", "9", "4", "9", "6", "7", "2", "9", "6">>,
      P |-> <<"-", "p">>,
      L |-> <<"-", "l">>,
      C |-> <<"-", "c">>,
      KeyValue |-> <<"k", ":", "v">>,
      \* "-" and the flag name derived from the identifier "\xc3\x89a" (U+00C9, a):
      \* U+FFFD for the first byte, then the bytes that follow it
      Ecole |-> <<"-", "\\xef", "\\xbf", "\\xbd", "\\x89", "a">>,
      Ete |-> <<"-", "\\xc3", "\\xa9">>
    ]

Hash == <<"#">>

NoEnv == { [E |-> <<>>] }
Envs == { [E |-> <<>>], [E |-> <<"5">>], [E |-> tok.X], [E |-> tok.n300] }
PairEnvs == { [E |-> <<>>], [E |-> tok.X], [E |-> tok.KeyValue] }

Command(name, id) == [Name |-> name, id |-> id]

NoTable == <<>>
Table == <<Command(tok.Create, 1), Command(tok.List, 2), Command(tok.Create, 3)>>
OneCommand == <<Command(tok.Create, 1)>>

\* The struct fields of the calls, by identifier.
fld ==
    [
      Verbose |-> Short(Field(<<"V", "e", "r", "b", "o", "s", "e">>, "bool", <<>>, "",
          <<>>), <<>>),
      Num |-> Field(<<"N", "u", "m">>, "int8", <<"n", ",", " ", "-", "n", "u", "m">>, "E",
          <<"3">>),
      Str |-> Field(<<"S", "t", "r">>, "string", <<"s">>, "", <<"d">>),
      H |-> Field(<<"H">>, "bool", <<"h">>, "", <<>>),
      Arg |-> Field(<<"A", "r", "g">>, "string", Hash, "", <<>>),
      Arg2 |-> Field(<<"A", "r", "g", "2">>, "string", <<"#", "B">>, "", <<>>),
      Rest |-> Field(<<"R", "e", "s", "t">>, "slice", Hash, "", <<>>),
      More |-> Field(<<"M", "o", "r", "e">>, "slice", <<"#", "M">>, "", <<>>),
      Count |-> Field(<<"C", "o", "u", "n", "t">>, "uint", Hash, "", <<>>),
      Other |-> Field(<<"O">>, "other", <<"o">>, "", <<"d">>),
      Again |-> Field(<<"A", "g", "a", "i", "n">>, "bool", <<"a", ",", "v">>, "", <<"1">>),
      Emb |-> Embedded(Field(<<"E", "m", "b">>, "string", <<"e">>, "E", <<"d">>)),
      Hidden |-> Field(<<"h", "i", "d">>, "int", <<>>, "E", <<"1">>),
      Skip |-> Field(<<"S", "k", "i", "p">>, "string", <<"-">>, "E", <<"d">>),
      Ratio |-> Field(<<"R", "a", "t", "i", "o">>, "float32", <<"r", ",", "\t", "-", "r",
          "a", "t", "i", "o">>, "E", <<"1", ".", "5">>),
      Scale |-> Field(<<"S", "c", "a", "l", "e">>, "float64", <<"f">>, "", <<"1", "e",
          "4", "0", "0">>),
      Big |-> Field(<<"B", "i", "g">>, "int64", <<"b">>, "", <<>>),
      Wide |-> Field(<<"W", "i", "d", "e">>, "uint32", <<"w">>, "", tok.n2p32),
      \* fields of struct types whose pointer implements flag.Value
      Pair |-> Value(Field(<<"P">>, "struct", <<"p">>, "E", <<"a", ":", "b">>), "pair"),
      List |-> Value(Field(<<"L", "s">>, "struct", <<"l">>, "", <<"d">>), "list"),
      Counter |-> Value(Field(<<"C">>, "struct", <<"c">>, "", <<>>), "counter"),
      \* identifiers that begin with U+00C9 and with U+00E9, without a name tag
      Ecole |-> Field(<<"\\xc3", "\\x89", "a">>, "bool", <<>>, "", <<>>),
      Ete |-> Field(<<"\\xc3", "\\xa9">>, "bool", <<>>, "", <<"t", "r", "u", "e">>),
      EmbRest |-> Embedded(Field(<<"L">>, "slice", Hash, "", <<>>)),
      \* unexported fields that carry a name tag
      LowNum |-> Field(<<"n", "u", "m">>, "int", <<"n">>, "", <<"1">>),
      LowFlag |-> Field(<<"v">>, "bool", <<"v">>, "", <<>>),
      LowArg |-> Field(<<"a", "r", "g">>, "string", Hash, "", <<>>),
      LowList |-> Value(Field(<<"l", "s">>, "struct", <<"l">>, "", <<>>), "list")
    ]

Call(ptr, flds, toks, envs, tables) ==
    [ptr |-> ptr, fields |-> flds, toks |-> toks, envs |-> envs, tables |-> tables,
     progs |-> {tok.Prog}]

\* The same call under more names of the program.
ProgNames(c, progs) == [c EXCEPT !.progs = progs]

\* Structs whose tagged fields are all exported, a nil pointer, a pointer to
\* something that is no struct.
Calls ==
    { Call("struct", <<fld.Verbose, fld.Num, fld.Str>>,
           {tok.V, tok.N, tok.n7, tok.H, tok.X, tok.Num9, tok.Vfalse}, Envs, {NoTable}),
      Call("struct", <<fld.Num>>, {tok.N, tok.n300, tok.U, tok.End, tok.Help, tok.S}, Envs,
           {NoTable}),
      Call("struct", <<fld.H, fld.Str>>, {tok.H, tok.Help, tok.S, tok.X}, NoEnv, {NoTable}),
      Call("struct", <<fld.Arg, fld.Rest>>, {tok.X, tok.Y, tok.End, tok.H, <<>>}, NoEnv,
           {NoTable, Table}),
      Call("struct", <<fld.Rest, fld.Arg, fld.Arg2>>, {tok.X, tok.Y, tok.Extra}, NoEnv,
           {NoTable}),
      Call("struct", <<fld.Verbose, fld.Arg>>, {tok.V, tok.X, tok.Create, tok.Extra, tok.Cr},
           NoEnv, {NoTable, Table}),
      ProgNames(Call("struct", <<fld.Verbose>>,
                     {tok.V, <<>>, tok.Create, tok.Extra, tok.List}, NoEnv,
                     {NoTable, Table, OneCommand}),
                {tok.Prog, tok.V}),
      Call("struct", <<>>, {tok.X, tok.H, tok.Create}, NoEnv, {NoTable, Table}),
      Call("nil", <<>>, {tok.X, tok.H, tok.Create, tok.Cr, tok.End, tok.U}, NoEnv,
           {NoTable, Table}),
      Call("struct", <<fld.Str, fld.Rest, fld.More>>, {tok.X, tok.S, tok.H}, NoEnv,
           {NoTable, Table}),
      Call("struct", <<fld.Arg, fld.Count>>, {tok.X, tok.n7}, NoEnv, {NoTable}),
      Call("struct", <<fld.Emb, fld.Hidden, fld.Skip, fld.EmbRest, fld.Verbose, fld.Rest>>,
           {tok.V, tok.E, tok.X, tok.S}, Envs, {NoTable}),
      Call("struct", <<fld.Other, fld.Verbose>>, {tok.O, tok.V, tok.X}, NoEnv, {NoTable}),
      Call("struct", <<fld.Str, fld.Verbose, fld.Again>>, {tok.V, tok.S}, NoEnv, {NoTable}),
      Call("struct", <<fld.Ratio, fld.Verbose>>,
           {tok.R, tok.RatioTenth, tok.n1e39, tok.HexQuarter, tok.V}, Envs, {NoTable}),
      Call("struct", <<fld.Big, fld.Wide, fld.Scale>>,
           {tok.B, tok.W, tok.F, tok.n2p63, tok.MinInt64, tok.MaxUint32}, NoEnv, {NoTable}),
      Call("struct", <<fld.Pair, fld.List, fld.Counter>>,
           {tok.P, tok.L, tok.C, tok.X, tok.KeyValue}, PairEnvs, {NoTable}),
      Call("struct", <<fld.Ecole, fld.Ete>>, {tok.Ecole, tok.Ete, tok.X}, NoEnv, {NoTable}),
      Call("int", <<>>, {tok.X}, NoEnv, {NoTable}) }

\* Structs with an unexported field that carries a name tag.
UnexportedCalls ==
    { Call("struct", <<fld.LowNum, fld.Verbose>>, {tok.N, tok.V, tok.n7}, NoEnv, {NoTable}),
      Call("struct", <<fld.LowFlag, fld.LowArg>>, {tok.V, tok.X}, NoEnv, {NoTable}),
      Call("struct", <<fld.LowArg, fld.Rest>>, {tok.X, tok.Y}, NoEnv, {NoTable}),
      Call("struct", <<fld.Verbose, fld.LowList>>, {tok.L, tok.V}, NoEnv, {NoTable}) }

ArgLists(toks) == UNION { [1..k -> toks] : k \in 0..MaxArgs }

\* The strategies a caller sets in Parser.CommandResolver, none among them.
Resolvers == {"nil", "decline", "rewriteDecline", "abbrev", "default", "bogus", "empty"}

InitFrom(calls) ==
    \E c \in calls : \E a \in ArgLists(c.toks) : \E e \in c.envs : \E t \in c.tables :
    \E p \in c.progs :
    \E r \in (IF t = NoTable THEN {"nil"} ELSE Resolvers) :
        /\ pc = "start"
        /\ args = <<p>> \o a
        /\ flagsPtr = c.ptr
        /\ fields = c.fields
        /\ commands = t
        /\ resolver = r
        /\ environ = e
        /\ rec = [i \in 1..Len(c.fields) |-> ZeroOf(c.fields[i])]
        /\ formal = <<>>
        /\ nonFlagStringFields = <<>>
        /\ nonFlagSliceField = 0
        /\ fi = 1
        /\ rest = <<>>
        /\ consumedNonFlagArgs = 0
        /\ result = Running
        /\ written = {}
        /\ lookups = 0
        /\ parsed = FALSE
        /\ flagLog = <<>>

Init == InitFrom(Calls)

Spec == Init /\ [][Next]_vars

\* The same program, called also with unexported tagged fields.
InitAll == InitFrom(Calls \cup UnexportedCalls)

SpecAll == InitAll /\ [][Next]_vars

(***************************************************************************)
(* The struct as its declaration reads, for the statements below           *)
(***************************************************************************)
IsSingle(f) == ~f.anonymous /\ HasPrefix(f.name, Hash) /\ f.kind = "string"

IsMulti(f) == ~f.anonymous /\ HasPrefix(f.name, Hash) /\ f.kind = "slice"

\* The single-value positional fields among the first k fields, in
\* declaration order.
RECURSIVE SinglesUpTo(_)
SinglesUpTo(k) ==
    IF k = 0 THEN <<>>
    ELSE IF IsSingle(fields[k]) THEN Append(SinglesUpTo(k - 1), k)
    ELSE SinglesUpTo(k - 1)

Singles == SinglesUpTo(Len(fields))

Multis == { i \in 1..Len(fields) : IsMulti(fields[i]) }

\* The tokens cmdline.Parse left, once it returned nil.
Positional == rest

Done == pc = "done"

Success == result.status = "returned" /\ result.err = "nil"

\* C1: with N single-value positional fields and one multi-value positional
\* field, no sub command table and M > N positional tokens, token i goes to the
\* i-th single field in declaration order, the other M-N tokens go to the multi
\* field in their order, the parse succeeds and every token is consumed.
C1_TailToMulti ==
    (/\ Done /\ parsed /\ flagsPtr = "struct" /\ commands = <<>>
     /\ Cardinality(Multis) = 1
     /\ Len(Positional) > Len(Singles))
    => /\ result = Succeeded(NoCommand, <<>>)
       /\ \A i \in 1..Len(Singles) : rec[Singles[i]] = Positional[i]
       /\ \A m \in Multis :
            /\ Len(rec[m]) = Len(Positional) - Len(Singles)
            /\ \A j \in 1..Len(rec[m]) : rec[m][j] = Positional[Len(Singles) + j]
       /\ consumedNonFlagArgs = Len(Positional)

\* Two single fields declared after the multi field, three tokens: the first
\* two go to the single fields, the third to the multi field.
C1_Witness ==
    /\ Done /\ parsed /\ commands = <<>>
    /\ Len(Singles) = 2 /\ Multis = {1}
    /\ Positional = <<tok.X, tok.Y, tok.Extra>>
    /\ rec[2] = tok.X /\ rec[3] = tok.Y /\ rec[1] = <<tok.Extra>>
    /\ Success

\* C4: without a sub command table parse never succeeds with a positional token
\* unbound: tokens left over after the distribution give "non-flag args not
\* allowed" for a struct without positional fields ("the command should be
\* runs without arguments" for a nil struct) and "accept only N non-flag args",
\* N the number of single positional fields, otherwise.
C4_LeftoverIsError ==
    (Done /\ parsed /\ commands = <<>>)
    => /\ (Multis = {} /\ Len(Positional) > Len(Singles))
            => /\ ~Success
               /\ (flagsPtr = "nil")
                    => result = Failed("the command should be runs without arguments", 0)
               /\ (flagsPtr = "struct" /\ Len(Singles) = 0)
                    => result = Failed("non-flag args not allowed", 0)
               /\ (flagsPtr = "struct" /\ Len(Singles) > 0)
                    => result = Failed("accept only n non-flag args", Len(Singles))
       /\ Success
            => /\ Multis = {} => Len(Positional) <= Len(Singles)
               /\ \A i \in 1..Len(Positional) :
                    \/ i <= Len(Singles) /\ rec[Singles[i]] = Positional[i]
                    \/ /\ i > Len(Singles)
                       /\ \E m \in Multis : rec[m][i - Len(Singles)] = Positional[i]

\* One single field and two tokens: "accept only 1 non-flag args".
C4_Witness ==
    /\ Done /\ parsed /\ commands = <<>> /\ flagsPtr = "struct"
    /\ Len(Singles) = 1 /\ Multis = {} /\ Len(Positional) = 2
    /\ result = Failed("accept only n non-flag args", 1)

\* C6: with a non-empty sub command table, with or without a struct, when the
\* flags and the positional fields leave no token for the sub command name the
\* result is "no command to be run", and no success comes without a command.
C6_NoCommandToRun ==
    (Done /\ parsed /\ commands # <<>>)
    => /\ Len(Positional) <= Len(Singles) => result = Failed("no command to be run", 0)
       /\ Success => result.cmd # NoCommand

\* A struct with one single field, a table, and one token that the field took.
C6_Witness ==
    /\ Done /\ parsed /\ commands # <<>> /\ flagsPtr = "struct"
    /\ Len(Singles) = 1 /\ Len(Positional) = 1 /\ rec[Singles[1]] = Positional[1]
    /\ result = Failed("no command to be run", 0)

\* C7: a struct with two multi-value positional fields ends in a panic raised
\* by the field loop, before cmdline.Parse saw a token, and the second field
\* never takes the place of the first.
C7_TwoMultiPanics ==
    (flagsPtr = "struct" /\ Cardinality(Multis) >= 2)
    => /\ pc \in {"start", "reflect", "done"}
       /\ Done => result.status = "panic"
       /\ rest = <<>> /\ flagLog = <<>> /\ ~parsed
       /\ \A m \in Multis : nonFlagSliceField = m => \A k \in Multis : m <= k
       /\ \A m \in Multis : m \notin written

\* The panic of the second []string field, with tokens waiting.
C7_Witness ==
    /\ Done /\ Cardinality(Multis) = 2 /\ Len(args) > 1
    /\ result = Panicked("duplicated non-flag field of type []string")
    /\ nonFlagSliceField # 0

\* C10: a struct with a multi-value positional field and a non-empty table
\* ends in a panic before cmdline.Parse saw a token, so that whenever a
\* command is dispatched only single-value fields were bound.
C10_NoMultiWithCommands ==
    /\ (flagsPtr = "struct" /\ commands # <<>> /\ Multis # {})
         => /\ pc \in {"start", "reflect", "done"}
            /\ Done => result.status = "panic"
            /\ rest = <<>> /\ flagLog = <<>> /\ ~parsed
    /\ (Done /\ result.cmd # NoCommand)
         => /\ nonFlagSliceField = 0
            /\ \A i \in written : fields[i].kind # "slice"

\* The panic at the end of the field loop.
C10_Witness ==
    /\ Done /\ commands # <<>> /\ Cardinality(Multis) = 1 /\ Len(args) > 1
    /\ result = Panicked("non-flag field of type []string is not allowed with sub commands")

\* The tokens neither the flags nor the positional fields took.
Unconsumed == Drop(rest, consumedNonFlagArgs)

Resolved == Done /\ parsed /\ commands # <<>> /\ Unconsumed # <<>>

Named(name) == \E i \in 1..Len(commands) : commands[i].Name = name

FirstNamed(cmd, name) ==
    \E i \in 1..Len(commands) :
        /\ commands[i] = cmd
        /\ cmd.Name = name
        /\ \A j \in 1..(i - 1) : commands[j].Name # name

\* C8: resolution looks the first token up by exact name and returns the first
\* command of the table with that name; only when that fails and a resolver is
\* set is there a second lookup, of the first token of the list the resolver
\* handed back, and it is the last; when no lookup finds a command the result
\* is "unknown command" and no command, whatever the resolver answered.
C8_Resolution ==
    Resolved
    => /\ lookups \in {1, 2}
       /\ Named(Unconsumed[1])
            => /\ lookups = 1
               /\ Success
               /\ FirstNamed(result.cmd, Unconsumed[1])
               /\ result.cmdArgs = Unconsumed
       /\ lookups = 2 => ~Named(Unconsumed[1]) /\ resolver # "nil"
       /\ (~Named(Unconsumed[1]) /\ resolver = "nil")
            => result = Failed("unknown command", 0)
       /\ (lookups = 2 /\ Success)
            => /\ result.cmdArgs = CommandResolver(resolver, Unconsumed, commands).args
               /\ FirstNamed(result.cmd, result.cmdArgs[1])
       /\ (lookups = 2 /\ ~Named(CommandResolver(resolver, Unconsumed, commands).args[1]))
            => ~Success
       /\ ~Success => result = Failed("unknown command", 0)

Dispatched == Done /\ result.cmd # NoCommand

\* C5 as stated: at a dispatch the first unconsumed token is the command's name
\* and the arguments returned are the tokens after the name, the name excluded.
C5_Original ==
    Dispatched
    => /\ result.cmd.Name = Unconsumed[1]
       /\ result.cmdArgs = Tail(Unconsumed)

\* C5, amended: at a dispatch the arguments returned begin with the command's
\* name, followed by the tokens after it: they are the unconsumed tokens
\* themselves when the first of them named the command, and the resolver's
\* list otherwise; an empty token ahead of the name is itself taken for the
\* name, and without a resolver fails as "unknown command", as do the tokens
\* ["-v", "", "create", "extra"] of the example, whose "-v" is args[0], the
\* name of the program.
C5_ArgsStartWithName ==
    /\ Dispatched
         => /\ Unconsumed # <<>>
            /\ result.cmdArgs # <<>>
            /\ result.cmdArgs[1] = result.cmd.Name
            /\ lookups = 1 => result.cmdArgs = Unconsumed
            /\ lookups = 2
                 => result.cmdArgs = CommandResolver(resolver, Unconsumed, commands).args
    /\ (Resolved /\ Unconsumed[1] = <<>> /\ resolver = "nil")
         => result = Failed("unknown command", 0)
    /\ (Done /\ args = <<tok.V, <<>>, tok.Create, tok.Extra>> /\ commands = OneCommand
              /\ resolver = "nil")
         => result = Failed("unknown command", 0)

\* prog -v create extra: v is set, create runs with [create, extra].
C5_Witness ==
    /\ Done
    /\ args = <<tok.Prog, tok.V, tok.Create, tok.Extra>>
    /\ fields = <<fld.Verbose>>
    /\ rec[1] = TRUE
    /\ result = Succeeded(Command(tok.Create, 1), <<tok.Create, tok.Extra>>)

(***************************************************************************)
(* C2: flag token, environment, default, zero                              *)
(***************************************************************************)
IsFlagField(f) ==
    /\ ~f.anonymous
    /\ f.name # <<"-">>
    /\ ~HasPrefix(f.name, Hash)
    /\ ~(f.name = <<>> /\ ~isExported(f.ident))
    /\ f.kind \in CommonKinds

TokensFor(i) == { k \in 1..Len(flagLog) : flagLog[k].field = i }

LastText(i) == flagLog[CHOOSE k \in TokensFor(i) : \A l \in TokensFor(i) : l <= k].text

EnvText(f) == IF f.env # "" THEN environ[f.env] ELSE <<>>

\* The field holds the value the text spells.
Holds(i, text) ==
    /\ Set(fields[i].kind, text).ok
    /\ rec[i] = Set(fields[i].kind, text).v

\* C2 as stated: after a successful parse a flag field holds the value of its
\* flag token if there is one, else the environment value if there is one,
\* else the default if there is one, else its zero value.
C2_Original ==
    (Done /\ Success /\ flagsPtr = "struct")
    => \A i \in 1..Len(fields) :
         IsFlagField(fields[i])
         => IF TokensFor(i) # {} THEN Holds(i, LastText(i))
            ELSE IF EnvText(fields[i]) # <<>> THEN Holds(i, EnvText(fields[i]))
            ELSE IF fields[i].def # <<>> THEN Holds(i, fields[i].def)
            ELSE rec[i] = Zero(fields[i].kind)

\* C2, amended: the environment value and the default count only when they
\* parse for the field's kind: flag token, else an environment value that
\* parses, else a default that parses, else the zero value.
C2_Precedence ==
    (Done /\ Success /\ flagsPtr = "struct")
    => \A i \in 1..Len(fields) :
         IsFlagField(fields[i])
         => IF TokensFor(i) # {} THEN Holds(i, LastText(i))
            ELSE IF EnvText(fields[i]) # <<>> /\ Set(fields[i].kind, EnvText(fields[i])).ok
            THEN Holds(i, EnvText(fields[i]))
            ELSE IF fields[i].def # <<>> /\ Set(fields[i].kind, fields[i].def).ok
            THEN Holds(i, fields[i].def)
            ELSE rec[i] = Zero(fields[i].kind)

\* -v given, Num left to the environment (5, over the default 3), Str left
\* to its default.
C2_Witness ==
    /\ Done /\ Success
    /\ fields = <<fld.Verbose, fld.Num, fld.Str>>
    /\ environ.E = <<"5">>
    /\ TokensFor(1) # {} /\ TokensFor(2) = {} /\ TokensFor(3) = {}
    /\ rec = <<TRUE, <<"5">>, <<"d">>>>

(***************************************************************************)
(* C3: the help request                                                    *)
(***************************************************************************)
HelpTokens == { <<"-", "h">>, <<"-", "-", "h">>,
                <<"-", "h", "e", "l", "p">>, <<"-", "-", "h", "e", "l", "p">> }

FlagName(t) == IF HasPrefix(t, <<"-", "-">>) THEN Drop(t, 2) ELSE Drop(t, 1)

HelpAsked == \E k \in 2..Len(args) : args[k] \in HelpTokens

\* C3 as stated: a help token anywhere among the tokens makes parse return
\* ErrHelp, and no field of the struct is assigned.
C3_Original ==
    (Done /\ HelpAsked)
    => /\ result = Failed("ErrHelp", 0)
       /\ written = {}

HelpReached ==
    /\ pc = "flags"
    /\ rest # <<>>
    /\ Head(rest) \in HelpTokens
    /\ ~Defined(formal, FlagName(Head(rest)))

\* C3, amended: when the flag scan reaches a help token that names no flag of
\* the struct, parse returns ErrHelp and assigns nothing from there on; what
\* the environment, the defaults and the flag tokens ahead of it assigned
\* stays.
C3_HelpReached ==
    [][HelpReached => /\ pc' = "done"
                      /\ result' = Failed("ErrHelp", 0)
                      /\ rec' = rec
                      /\ written' = written]_vars

\* ErrHelp, with a field set by a flag token ahead of the help token.
C3_Witness ==
    /\ Done /\ result = Failed("ErrHelp", 0)
    /\ flagLog # <<>>
    /\ \E i \in written : rec[i] # ZeroOf(fields[i])

(***************************************************************************)
(* C9: the fields the loop passes over                                     *)
(***************************************************************************)
PassedOver(f) == f.anonymous \/ ~isExported(f.ident) \/ f.name = <<"-">>

\* C9: an embedded field, an unexported field and a field tagged name "-" is
\* no flag, no positional field, and is never assigned, whatever its tags.
C9_PassedOver ==
    \A i \in 1..Len(fields) :
        PassedOver(fields[i])
        => /\ i \notin written
           /\ \A k \in 1..Len(formal) : formal[k].field # i
           /\ \A k \in 1..Len(nonFlagStringFields) : nonFlagStringFields[k] # i
           /\ nonFlagSliceField # i
====
